---- MODULE Spec2Model ----
(***************************************************************************)
(* PotDB: the per-document transactional engine (storage/db.ts), the       *)
(* push replication client and receiver (replication/index.ts) and the     *)
(* write orchestration of the HTTP API (api/docs.ts), as a state machine.  *)
(*                                                                         *)
(* A node is one PotDB process: a key-value store, a table of per-_id      *)
(* mutexes, and the asynchronous operations in progress on it.  Every      *)
(* action is one run-to-completion step of the single-threaded event loop  *)
(* of one node (the code between two awaits), or one network event.        *)
(***************************************************************************)
EXTENDS Integers, Sequences, FiniteSets, TLC

VARIABLES
  peers,     \* CONFIG.peers of every node: the nodes it pushes to
  store,     \* the LevelDB of every node: _id -> stored document
  locked,    \* Mutex.locked of every node's mutex of every _id
  queue,     \* Mutex.queue of every node's mutex of every _id
  reqs,      \* the client operations: their inputs, position and locals
  msgs       \* the pushes: one /replicate request per (operation, peer)

vars == <<peers, store, locked, queue, reqs, msgs>>

(***************************************************************************)
(* Bounds of the model.                                                    *)
(***************************************************************************)
\* client operations started in one behaviour
MaxReqs == 2
\* tx calls made by the body of one engine transaction
MaxCalls == 2

Nodes == {"A", "B", "C"}
Ids == {"x"}
ReqIds == 1..MaxReqs
\* the senders of /replicate requests: the operations of the nodes, and a
\* sender outside the model (another peer holding a valid token), which
\* sends any number of requests, one at a time
ForeignId == MaxReqs + 1
\* the request by which that sender sends the same change record once more
RepeatId == MaxReqs + 2
SenderIds == ReqIds \cup {ForeignId, RepeatId}
\* the uuids drawn in one behaviour: at most one per put
NonceIds == 1..(MaxReqs * MaxCalls)

(***************************************************************************)
(* Strings.  A _rev is a string; it is modelled as the sequence of its     *)
(* characters, the 8 hex characters of a nonce being one token "h<k>".     *)
(* Undefined is the JavaScript value undefined (a missing property), which *)
(* the code tells apart from the empty string in one place (casDelete).    *)
(***************************************************************************)
Undefined == <<"undefined">>
EmptyStr == <<>>
Digits == <<"0", "1", "2", "3", "4", "5", "6", "7", "8", "9">>

\* JavaScript truthiness of an optional string: !s is ~Truthy(s)
Truthy(s) == s # Undefined /\ s # EmptyStr

\* (s || undefined)
OrUndefined(s) == IF Truthy(s) THEN s ELSE Undefined

\* String.prototype.indexOf('-'): the 0-based index of the first dash, or -1
IndexOfDash(s) ==
  IF \E i \in 1..Len(s) : s[i] = "-"
  THEN (CHOOSE i \in 1..Len(s) : s[i] = "-" /\ \A j \in 1..(i - 1) : s[j] # "-") - 1
  ELSE -1

IsDigit(c) == \E d \in 1..10 : Digits[d] = c
DigitVal(c) == (CHOOSE d \in 1..10 : Digits[d] = c) - 1

\* the value of a non-empty string of decimal digits
RECURSIVE DecimalVal(_)
DecimalVal(s) ==
  IF Len(s) = 0 THEN 0
  ELSE 10 * DecimalVal(SubSeq(s, 1, Len(s) - 1)) + DigitVal(s[Len(s)])

\* Number(s) when Number.isFinite(Number(s)), else -1 (NaN).  Over the
\* alphabet of the model a string is numeric iff it is all digits;
\* Number("") is 0.
NumberOf(s) ==
  IF \A i \in 1..Len(s) : IsDigit(s[i]) THEN DecimalVal(s) ELSE -1

\* `${n}`: the decimal digits of a natural number
RECURSIVE DecimalStr(_)
DecimalStr(n) ==
  IF n < 10 THEN <<Digits[n + 1]>>
  ELSE DecimalStr(n \div 10) \o <<Digits[(n % 10) + 1]>>

\* uuidv4().slice(0, 8) of the k-th uuid: a token no other uuid yields
Nonce(k) == "h" \o ToString(k)

\* a faulty nextRev that starts every revision at generation 1
nextRevFlat(prev, k) == <<"1", "-", Nonce(k)>>

(***************************************************************************)
(* JavaScript numbers are IEEE 754 doubles.  A number that is a            *)
(* non-negative integer is modelled by its decimal digits without leading  *)
(* zeros, which is also what `${n}` yields below 10^21, and NaN by         *)
(* NotANumber.  The integers up to 2^53 are doubles; from 2^53 to 2^54     *)
(* only the even ones are, and an odd one is rounded to the neighbour      *)
(* whose mantissa is even, which is the multiple of 4.  Numbers of 2^54    *)
(* and more do not occur in the model.                                     *)
(***************************************************************************)
NotANumber == <<"NaN">>
TwoTo53 ==
  <<"9", "0", "0", "7", "1", "9", "9", "2", "5", "4", "7", "4", "0", "9", "9", "2">>

\* the digits without leading zeros
RECURSIVE Canon(_)
Canon(d) == IF Len(d) > 1 /\ d[1] = "0" THEN Canon(Tail(d)) ELSE d

\* d < e, for digits without leading zeros
RECURSIVE DigitsLess(_, _)
DigitsLess(d, e) ==
  IF Len(d) # Len(e) THEN Len(d) < Len(e)
  ELSE IF Len(d) = 0 THEN FALSE
  ELSE IF d[1] # e[1] THEN DigitVal(d[1]) < DigitVal(e[1])
  ELSE DigitsLess(Tail(d), Tail(e))

\* d + 1 in the integers
RECURSIVE DigitsSucc(_)
DigitsSucc(d) ==
  IF Len(d) = 0 THEN <<"1">>
  ELSE IF d[Len(d)] = "9" THEN DigitsSucc(SubSeq(d, 1, Len(d) - 1)) \o <<"0">>
  ELSE SubSeq(d, 1, Len(d) - 1) \o <<Digits[DigitVal(d[Len(d)]) + 2]>>

\* d - 1 in the integers, for d > 0
RECURSIVE DigitsPred(_)
DigitsPred(d) ==
  IF d[Len(d)] = "0"
  THEN Canon(DigitsPred(SubSeq(d, 1, Len(d) - 1)) \o <<"9">>)
  ELSE Canon(SubSeq(d, 1, Len(d) - 1) \o <<Digits[DigitVal(d[Len(d)])]>>)

\* d modulo 4
DigitsMod4(d) ==
  ((IF Len(d) > 1 THEN 10 * DigitVal(d[Len(d) - 1]) ELSE 0) + DigitVal(d[Len(d)])) % 4

\* the double nearest to the integer d < 2^54, ties to even
ToDouble(d) ==
  IF ~DigitsLess(TwoTo53, d) THEN d
  ELSE IF DigitsMod4(d) \in {0, 2} THEN d
  ELSE IF DigitsMod4(DigitsSucc(d)) = 0 THEN DigitsSucc(d) ELSE DigitsPred(d)

\* Number(s) for a non-empty s.  Over the alphabet of the model a string is
\* numeric iff it is all digits.
Number(s) ==
  IF \A i \in 1..Len(s) : IsDigit(s[i]) THEN ToDouble(Canon(s)) ELSE NotANumber

\* nextRev(prev) drawing the k-th uuid
nextRev(prev, k) ==
  IF ~Truthy(prev) THEN <<"1", "-", Nonce(k)>>
  ELSE LET dash == IndexOfDash(prev)
           num  == IF dash > 0 THEN Number(SubSeq(prev, 1, dash)) ELSE NotANumber
           n    == IF dash > 0 /\ num # NotANumber THEN num ELSE <<"0">>
       IN  ToDouble(DigitsSucc(n)) \o <<"-", Nonce(k)>>

\* the generation a _rev carries: its decimal prefix, 0 when it has none
Generation(rev) ==
  LET dash == IndexOfDash(rev)
      num  == IF dash > 0 THEN NumberOf(SubSeq(rev, 1, dash)) ELSE -1
  IN  IF Truthy(rev) /\ dash > 0 /\ num >= 0 THEN num ELSE 0

(***************************************************************************)
(* Documents.  A document is a JSON object: its _id, its _rev and its      *)
(* other attributes, here the two attributes a and b, 0 for a missing one. *)
(* NoDoc is "no document" (undefined, or NOT_FOUND in the store).          *)
(***************************************************************************)
NoBody == [a |-> 0, b |-> 0]
NoDoc == [some |-> FALSE, id |-> "", rev |-> Undefined, body |-> NoBody]
MkDoc(id, rev, body) == [some |-> TRUE, id |-> id, rev |-> rev, body |-> body]

\* existing?._rev
RevOf(doc) == IF doc.some THEN doc.rev ELSE Undefined

\* a faulty merge in which the attributes already stored win
OverlayKeep(existing, input) ==
  [a |-> IF existing.a # 0 THEN existing.a ELSE input.a,
   b |-> IF existing.b # 0 THEN existing.b ELSE input.b]

\* { ...existing, ...input }: the attributes of input win, the others stay
Overlay(existing, input) ==
  [a |-> IF input.a # 0 THEN input.a ELSE existing.a,
   b |-> IF input.b # 0 THEN input.b ELSE existing.b]

(***************************************************************************)
(* Operations in progress.                                                 *)
(*                                                                         *)
(* A client operation (reqs[r]) is a POST or DELETE of the HTTP API, a GET *)
(* of the HTTP API, a plain put / del of the storage module, or a call of  *)
(* withDocTransaction by another user of the storage module (TX).  pc is   *)
(* the await it is suspended at:                                           *)
(*   idle     not started                                                  *)
(*   wait     in Mutex.queue, awaiting acquire()                           *)
(*   get      holds the lock; tx.get() reading the store                   *)
(*   apply    holds the lock; tx.put() / tx.del() reading the store        *)
(*   await    holds the lock; awaiting pushToPeers                         *)
(*   rollback holds the lock; tx.replaceExact() / tx.del(rev) reading      *)
(*   plain    holds the lock; plain put / del reading the store            *)
(*   body     holds the lock; the body of an engine transaction, between   *)
(*            two tx calls (op the last call, calls their number)          *)
(*   read     plain get reading the store                                  *)
(*   done     answered                                                     *)
(* before and rivals are history fields: the document stored when the     *)
(* lock was granted, and the POSTs that were in progress, carrying the     *)
(* same current _rev, when this one arrived.                               *)
(***************************************************************************)
IdleReq ==
  [kind |-> "none", node |-> "", id |-> "", irev |-> Undefined, ibody |-> NoBody,
   pc |-> "idle", prev |-> NoDoc, saved |-> NoDoc, status |-> 0, err |-> "",
   result |-> NoDoc, before |-> NoDoc, rivals |-> {},
   op |-> "", calls |-> 0]

\* ReplicateMsg; NoChange before pushToPeers builds one
NoChange == [op |-> "", id |-> "", prevRev |-> Undefined, rev |-> Undefined, doc |-> NoDoc]

(***************************************************************************)
(* A push (msgs[r, p]) is the /replicate request of sender r to node p; an  *)
(* origin awaits it when r is one of its operations.                       *)
(* arm is the result of its arm of the fan-out at the origin (pending, or  *)
(* ack / conflict / failure); st is where the request is:                  *)
(*   none     not sent                                                     *)
(*   sent     on the wire to p                                             *)
(*   queued   at p, applyRemote* in Mutex.queue                            *)
(*   holding  at p, applyRemote* holds the lock, reading the store         *)
(*   done     answered by p with status, or lost; the request is gone      *)
(* The answer of p settles the arm in the step that sends it, unless the   *)
(* arm has timed out before: an answer that is still on the wire when the  *)
(* timeout fires is the behaviour in which the timeout fires first, the    *)
(* two steps touching different state.                                     *)
(***************************************************************************)
NoMsg == [change |-> NoChange, arm |-> "none", st |-> "none", status |-> 0]

\* a waiter in Mutex.queue: the resolve callback of an operation or a push
ReqWaiter(r) == [t |-> "req", r |-> r, p |-> ""]
MsgWaiter(r, p) == [t |-> "msg", r |-> r, p |-> p]

(***************************************************************************)
(* Configurations: the peer lists the nodes are started with.              *)
(* Pair: A pushes to B.  Star: A pushes to B and to C.                     *)
(***************************************************************************)
Pair == [n \in Nodes |-> IF n = "A" THEN {"B"} ELSE {}]
Star == [n \in Nodes |-> IF n = "A" THEN {"B", "C"} ELSE {}]
Configs == {Pair}

Init ==
  /\ peers \in Configs
  /\ store = [n \in Nodes |-> [i \in Ids |-> NoDoc]]
  /\ locked = [n \in Nodes |-> [i \in Ids |-> FALSE]]
  /\ queue = [n \in Nodes |-> [i \in Ids |-> <<>>]]
  /\ reqs = [r \in ReqIds |-> IdleReq]
  /\ msgs = [k \in SenderIds \X Nodes |-> NoMsg]

(***************************************************************************)
(* Mutex                                                                   *)
(***************************************************************************)
\* a faulty acquire that grants the lock to every caller at once
AcquiresAlways(n, id) == TRUE

\* a faulty getMutex that keeps one mutex for all the _ids of a node
AcquiresNowAnyKey(n, id) == \A i \in DOMAIN locked[n] : ~locked[n][i]

\* getMutex(id).acquire(): the lock of id is taken at once iff it is not
\* locked
AcquiresNow(n, id) == ~locked[n][id]

\* the await of an operation that has just been granted the lock
FirstPc(kind) ==
  IF kind \in {"POST", "DELETE"} THEN "get"
  ELSE IF kind = "TX" THEN "body" ELSE "plain"

\* a faulty release that hands the lock to the newest waiter
ReleaseNewest(n, id, rq, ms, doc) ==
  IF queue[n][id] # <<>>
  THEN LET w == queue[n][id][Len(queue[n][id])] IN
       /\ queue' = [queue EXCEPT ![n][id] = SubSeq(@, 1, Len(@) - 1)]
       /\ locked' = locked
       /\ reqs' = IF w.t = "req"
                  THEN [rq EXCEPT ![w.r].pc = FirstPc(rq[w.r].kind),
                                  ![w.r].before = doc]
                  ELSE rq
       /\ msgs' = IF w.t = "msg"
                  THEN [ms EXCEPT ![w.r, w.p].st = "holding"]
                  ELSE ms
  ELSE /\ queue' = queue
       /\ locked' = [locked EXCEPT ![n][id] = FALSE]
       /\ reqs' = rq
       /\ msgs' = ms

\* release(): hand the lock to the oldest waiter, or unlock.  rq and ms are
\* the operations and pushes as the releasing step leaves them, doc the
\* document it leaves stored.
Release(n, id, rq, ms, doc) ==
  IF queue[n][id] # <<>>
  THEN LET w == Head(queue[n][id]) IN
       /\ queue' = [queue EXCEPT ![n][id] = Tail(@)]
       /\ locked' = locked
       /\ reqs' = IF w.t = "req"
                  THEN [rq EXCEPT ![w.r].pc = FirstPc(rq[w.r].kind),
                                  ![w.r].before = doc]
                  ELSE rq
       /\ msgs' = IF w.t = "msg"
                  THEN [ms EXCEPT ![w.r, w.p].st = "holding"]
                  ELSE ms
  ELSE /\ queue' = queue
       /\ locked' = [locked EXCEPT ![n][id] = FALSE]
       /\ reqs' = rq
       /\ msgs' = ms

(***************************************************************************)
(* Client inputs                                                           *)
(***************************************************************************)
\* a _rev no node ever allocated ("0-bad")
StaleRev == <<"0", "-", "bad">>

\* the _rev a client may send: none, the one stored on the node, a stale one
InputRevs(n, id) == {Undefined, StaleRev, RevOf(store[n][id])}

\* the other attributes operation r may send: a value of its own for a
InputBodies(r) == {[a |-> r, b |-> 0]}

\* the nodes clients talk to
ClientNodes == {"A"}

\* operation r is the next one to start
NextToStart(r) == reqs[r].pc = "idle" /\ \A q \in ReqIds : q < r => reqs[q].pc # "idle"

\* every _rev the nodes and the network hold
LiveRevs ==
  UNION {{store[n][i].rev : i \in DOMAIN store[n]} : n \in Nodes}
  \cup {reqs[r].prev.rev : r \in ReqIds} \cup {reqs[r].saved.rev : r \in ReqIds}
  \cup {reqs[r].result.rev : r \in ReqIds} \cup {reqs[r].before.rev : r \in ReqIds}
  \cup {reqs[r].irev : r \in ReqIds}
  \cup {msgs[k].change.prevRev : k \in SenderIds \X Nodes}
  \cup {msgs[k].change.rev : k \in SenderIds \X Nodes}

\* uuidv4(): a uuid that occurs nowhere.  Uuids that occur nowhere in the
\* state cannot be told apart, so the least of them stands for all.
Uuid ==
  CHOOSE k \in NonceIds :
    /\ \A rev \in LiveRevs : \A i \in 1..Len(rev) : rev[i] # Nonce(k)
    /\ \A j \in 1..(k - 1) : \E rev \in LiveRevs : \E i \in 1..Len(rev) : rev[i] = Nonce(j)

\* the POSTs in progress for the same document that carry the same _rev as
\* a POST that now arrives with the _rev stored
Rivals(r, kind, n, id, irev) ==
  IF kind = "POST" /\ store[n][id].some /\ irev = store[n][id].rev
  THEN {q \in ReqIds \ {r} :
          /\ reqs[q].kind = "POST" /\ reqs[q].pc \notin {"idle", "done"}
          /\ reqs[q].node = n /\ reqs[q].id = id /\ reqs[q].irev = irev}
  ELSE {}

\* a faulty start of an operation that runs without taking the lock
StartUnlocked(r, kind, n, id, irev, ibody) ==
  /\ NextToStart(r)
  /\ reqs' = [reqs EXCEPT ![r] =
                [IdleReq EXCEPT !.kind = kind, !.node = n, !.id = id,
                                !.irev = irev, !.ibody = ibody,
                                !.pc = FirstPc(kind), !.before = store[n][id]]]
  /\ UNCHANGED <<peers, store, locked, queue, msgs>>

\* the start of an operation that takes the lock of id: acquire()
StartLocked(r, kind, n, id, irev, ibody) ==
  /\ NextToStart(r)
  /\ LET now == AcquiresNow(n, id) IN
     /\ reqs' = [reqs EXCEPT ![r] =
                   [IdleReq EXCEPT !.kind = kind, !.node = n, !.id = id,
                                   !.irev = irev, !.ibody = ibody,
                                   !.pc = IF now THEN FirstPc(kind) ELSE "wait",
                                   !.before = IF now THEN store[n][id] ELSE NoDoc,
                                   !.rivals = Rivals(r, kind, n, id, irev)]]
     /\ locked' = [locked EXCEPT ![n][id] = TRUE]
     /\ queue' = IF now THEN queue
                 ELSE [queue EXCEPT ![n][id] = Append(@, ReqWaiter(r))]
  /\ UNCHANGED <<peers, store, msgs>>

(***************************************************************************)
(* The CAS checks of the engine: the message of the 409 they throw, or ""  *)
(***************************************************************************)
\* a faulty check that accepts every write
casPutErrorNone(existing, irev) == ""

\* a faulty check that compares _rev only when both sides have one
casPutErrorLax(existing, irev) ==
  IF existing.some /\ Truthy(irev) /\ irev # existing.rev
  THEN "conflict: revision mismatch" ELSE ""

\* put and casPut
casPutError(existing, irev) ==
  IF existing.some
  THEN IF ~Truthy(irev) \/ irev # existing.rev
       THEN "conflict: revision mismatch" ELSE ""
  ELSE IF Truthy(irev) THEN "conflict: document does not exist" ELSE ""

\* the document put and casPut store: merged, _id forced, next _rev
casPutDoc(existing, id, ibody, k) ==
  MkDoc(id, nextRev(RevOf(existing), k),
        Overlay(IF existing.some THEN existing.body ELSE NoBody, ibody))

\* a faulty comparison that lets every expected revision pass
casRevErrorNone(existing, expected) == ""

\* casReplace, applyRemotePut, applyRemoteDel: current _rev against expected
casRevError(existing, expected) ==
  IF OrUndefined(RevOf(existing)) # OrUndefined(expected)
  THEN "conflict: revision mismatch" ELSE ""

\* a faulty casDelete that also checks a prevRev that is not given
casDeleteErrorStrict(existing, prevRev) == casRevError(existing, prevRev)

\* casDelete: checked only when a prevRev is given
casDeleteError(existing, prevRev) ==
  IF prevRev # Undefined THEN casRevError(existing, prevRev) ELSE ""

\* a faulty spread that leaves the document its own _id
KeepId(doc, id) == doc

\* { ...doc, _id }
ForceId(doc, id) == [doc EXCEPT !.id = id]

(***************************************************************************)
(* Replication client: pushToPeers                                         *)
(***************************************************************************)
\* a faulty orchestration that sends every change record without prevRev
PushedNoPrev(r, n, change) ==
  [k \in SenderIds \X Nodes |->
     IF k[1] = r /\ k[2] \in peers[n]
     THEN [change |-> [change EXCEPT !.prevRev = Undefined], arm |-> "pending",
           st |-> "sent", status |-> 0]
     ELSE msgs[k]]

\* the fetches pushToPeers starts: one request per configured peer
Pushed(r, n, change) ==
  [k \in SenderIds \X Nodes |->
     IF k[1] = r /\ k[2] \in peers[n]
     THEN [change |-> change, arm |-> "pending", st |-> "sent", status |-> 0]
     ELSE msgs[k]]

\* a faulty classification that takes a 409 for a failure
ClassifyLax(status) == IF status = 200 THEN "ack" ELSE "failure"

\* the classification of a peer's answer
Classify(status) ==
  IF status = 200 THEN "ack" ELSE IF status = 409 THEN "conflict" ELSE "failure"

\* the three lists pushToPeers returns
PeersWith(r, type) == {p \in peers[reqs[r].node] : msgs[r, p].arm = type}
acks(r) == PeersWith(r, "ack")
conflicts(r) == PeersWith(r, "conflict")
failures(r) == PeersWith(r, "failure")

\* a faulty fan-out that returns as soon as one peer has answered 409
SettledEarly(r) == PeersWith(r, "pending") = {} \/ PeersWith(r, "conflict") # {}

\* Promise.all has resolved: every arm has settled
Settled(r) == PeersWith(r, "pending") = {}

\* a faulty orchestration that never rolls back
NeverRollBack(r) == FALSE

\* a faulty orchestration that also rolls back when a peer has failed
RollBackOnFailure(r) == conflicts(r) # {} \/ failures(r) # {}

\* conflicts.length > 0
MustRollBack(r) == conflicts(r) # {}

(***************************************************************************)
(* Write orchestration: POST /api/docs and DELETE /api/docs/:id            *)
(***************************************************************************)
StartPost ==
  \E r \in ReqIds, n \in ClientNodes, id \in Ids :
    \E irev \in InputRevs(n, id), ibody \in InputBodies(r) :
      StartLocked(r, "POST", n, id, irev, ibody)

StartDelete ==
  \E r \in ReqIds, n \in ClientNodes, id \in Ids :
    StartLocked(r, "DELETE", n, id, Undefined, NoBody)

\* an operation that has ended: what it was and what it answered; its
\* locals are gone
Answer(q, status, err, result) ==
  [IdleReq EXCEPT !.kind = q.kind, !.node = q.node, !.id = q.id, !.irev = q.irev,
                  !.pc = "done", !.status = status, !.err = err, !.result = result]

\* the pushes once the operation of sender r has ended: the results of its
\* arms are gone with pushToPeers; a request still under way goes on
Forgotten(r) ==
  [k \in SenderIds \X Nodes |->
     IF k[1] = r THEN [msgs[k] EXCEPT !.arm = "none", !.status = 0] ELSE msgs[k]]

\* a faulty end of an operation that releases the lock only when it succeeds
FinishLeaks(r, status, err, result, doc) ==
  IF status = 200
  THEN Release(reqs[r].node, reqs[r].id,
               [reqs EXCEPT ![r] = Answer(reqs[r], status, err, result)],
               Forgotten(r), doc)
  ELSE /\ reqs' = [reqs EXCEPT ![r] = Answer(reqs[r], status, err, result)]
       /\ msgs' = Forgotten(r)
       /\ UNCHANGED <<locked, queue>>

\* an operation ends: its answer is sent and its lock released
Finish(r, status, err, result, doc) ==
  Release(reqs[r].node, reqs[r].id,
          [reqs EXCEPT ![r] = Answer(reqs[r], status, err, result)],
          Forgotten(r), doc)

\* prev = await tx.get()
TxGet(r) ==
  /\ reqs[r].pc = "get"
  /\ reqs' = [reqs EXCEPT ![r].prev = store[reqs[r].node][reqs[r].id], ![r].pc = "apply"]
  /\ UNCHANGED <<peers, store, locked, queue, msgs>>

\* a faulty POST that pushes the change before tx.put has checked the CAS
TxPutPushesFirst(r) ==
  /\ reqs[r].pc = "apply" /\ reqs[r].kind = "POST"
  /\ LET q == reqs[r]
         existing == store[q.node][q.id]
         e == casPutError(existing, q.irev)
         saved == casPutDoc(existing, q.id, q.ibody, Uuid)
         change == [op |-> "put", id |-> saved.id, prevRev |-> RevOf(q.prev),
                    rev |-> saved.rev, doc |-> saved]
     IN IF e # ""
        THEN /\ Release(q.node, q.id, [reqs EXCEPT ![r] = Answer(q, 409, e, NoDoc)],
                        Pushed(r, q.node, change), existing)
             /\ UNCHANGED <<peers, store>>
        ELSE /\ store' = [store EXCEPT ![q.node][q.id] = saved]
             /\ reqs' = [reqs EXCEPT ![r].saved = saved, ![r].pc = "await"]
             /\ msgs' = Pushed(r, q.node, change)
             /\ UNCHANGED <<peers, locked, queue>>

\* saved = await tx.put({...incoming, _id}), then pushToPeers(change);
\* a CAS conflict ends the request with 409
TxPut(r) ==
  /\ reqs[r].pc = "apply" /\ reqs[r].kind = "POST"
  /\ LET q == reqs[r]
         existing == store[q.node][q.id]
         e == casPutError(existing, q.irev)
         saved == casPutDoc(existing, q.id, q.ibody, Uuid)
         change == [op |-> "put", id |-> saved.id, prevRev |-> RevOf(q.prev),
                    rev |-> saved.rev, doc |-> saved]
     IN IF e # ""
        THEN /\ Finish(r, 409, e, NoDoc, existing)
             /\ UNCHANGED <<peers, store>>
        ELSE /\ store' = [store EXCEPT ![q.node][q.id] = saved]
             /\ reqs' = [reqs EXCEPT ![r].saved = saved, ![r].pc = "await"]
             /\ msgs' = Pushed(r, q.node, change)
             /\ UNCHANGED <<peers, locked, queue>>

\* await tx.del(), then pushToPeers(change)
TxDel(r) ==
  /\ reqs[r].pc = "apply" /\ reqs[r].kind = "DELETE"
  /\ LET q == reqs[r]
         existing == store[q.node][q.id]
         e == casDeleteError(existing, Undefined)
         change == [op |-> "del", id |-> q.id, prevRev |-> RevOf(q.prev),
                    rev |-> Undefined, doc |-> NoDoc]
     IN IF e # ""
        THEN /\ Finish(r, 409, e, NoDoc, existing)
             /\ UNCHANGED <<peers, store>>
        ELSE /\ store' = [store EXCEPT ![q.node][q.id] = NoDoc]
             /\ reqs' = [reqs EXCEPT ![r].pc = "await"]
             /\ msgs' = Pushed(r, q.node, change)
             /\ UNCHANGED <<peers, locked, queue>>

\* pushToPeers has returned: commit (201 / 204), or start the rollback;
\* a DELETE of a missing document has nothing to restore
PushSettled(r) ==
  /\ reqs[r].pc = "await" /\ Settled(r)
  /\ LET q == reqs[r]
         cur == store[q.node][q.id]
     IN IF MustRollBack(r)
        THEN IF q.kind = "DELETE" /\ ~q.prev.some
             THEN Finish(r, 409, "replication conflict", NoDoc, cur)
             ELSE /\ reqs' = [reqs EXCEPT ![r].pc = "rollback"]
                  /\ UNCHANGED <<locked, queue, msgs>>
        ELSE IF q.kind = "POST"
             THEN Finish(r, 201, "", q.saved, cur)
             ELSE Finish(r, 204, "", NoDoc, cur)
  /\ UNCHANGED <<peers, store>>

\* a faulty rollback that answers 409 and leaves the local change stored
RollbackKeeps(r) ==
  /\ reqs[r].pc = "rollback"
  /\ Finish(r, 409, "replication conflict", NoDoc, store[reqs[r].node][reqs[r].id])
  /\ UNCHANGED <<peers, store>>

\* a faulty rollback that also takes the write back at the peers that have
\* acknowledged it
RollbackAtPeers(r) ==
  /\ reqs[r].pc = "rollback"
  /\ LET q == reqs[r]
         restored == IF q.prev.some THEN ForceId(q.prev, q.id) ELSE NoDoc
     IN /\ store' = [n \in Nodes |->
                      IF n = q.node \/ n \in acks(r)
                      THEN [store[n] EXCEPT ![q.id] = restored] ELSE store[n]]
        /\ Finish(r, 409, "replication conflict", NoDoc, restored)
  /\ UNCHANGED peers

\* a faulty rollback that expects the _rev of prev to be the stored one
RollbackExpectsPrev(r) ==
  /\ reqs[r].pc = "rollback"
  /\ LET q == reqs[r]
         existing == store[q.node][q.id]
         expected == RevOf(q.prev)
         e == IF q.prev.some THEN casRevError(existing, expected)
              ELSE casDeleteError(existing, expected)
         restored == IF q.prev.some THEN ForceId(q.prev, q.id) ELSE NoDoc
     IN IF e # ""
        THEN /\ Finish(r, 409, e, NoDoc, existing)
             /\ UNCHANGED store
        ELSE /\ store' = [store EXCEPT ![q.node][q.id] = restored]
             /\ Finish(r, 409, "replication conflict", NoDoc, restored)
  /\ UNCHANGED peers

\* the rollback under the lock, then the 409:
\*   POST:   prev ? tx.replaceExact(prev, saved._rev) : tx.del(saved._rev)
\*   DELETE: tx.replaceExact(prev, undefined)
Rollback(r) ==
  /\ reqs[r].pc = "rollback"
  /\ LET q == reqs[r]
         existing == store[q.node][q.id]
         expected == IF q.kind = "POST" THEN q.saved.rev ELSE Undefined
         e == IF q.prev.some THEN casRevError(existing, expected)
              ELSE casDeleteError(existing, expected)
         restored == IF q.prev.some THEN ForceId(q.prev, q.id) ELSE NoDoc
     IN IF e # ""
        THEN /\ Finish(r, 409, e, NoDoc, existing)
             /\ UNCHANGED store
        ELSE /\ store' = [store EXCEPT ![q.node][q.id] = restored]
             /\ Finish(r, 409, "replication conflict", NoDoc, restored)
  /\ UNCHANGED peers

(***************************************************************************)
(* Plain operations of the engine: put, del, get                           *)
(***************************************************************************)
StartPut ==
  \E r \in ReqIds, n \in ClientNodes, id \in Ids :
    \E irev \in InputRevs(n, id), ibody \in InputBodies(r) :
      StartLocked(r, "PUT", n, id, irev, ibody)

StartDel ==
  \E r \in ReqIds, n \in ClientNodes, id \in Ids :
    StartLocked(r, "DEL", n, id, Undefined, NoBody)

\* put(input) under the lock: CAS, store, release; status 200 stands for
\* the document returned, 409 for the conflict thrown
PlainPut(r) ==
  /\ reqs[r].pc = "plain" /\ reqs[r].kind = "PUT"
  /\ LET q == reqs[r]
         existing == store[q.node][q.id]
         e == casPutError(existing, q.irev)
         next == casPutDoc(existing, q.id, q.ibody, Uuid)
     IN IF e # ""
        THEN /\ Finish(r, 409, e, NoDoc, existing)
             /\ UNCHANGED store
        ELSE /\ store' = [store EXCEPT ![q.node][q.id] = next]
             /\ Finish(r, 200, "", next, next)
  /\ UNCHANGED peers

\* a faulty del that fails when nothing is stored
PlainDelStrict(r) ==
  /\ reqs[r].pc = "plain" /\ reqs[r].kind = "DEL"
  /\ IF store[reqs[r].node][reqs[r].id].some
     THEN /\ store' = [store EXCEPT ![reqs[r].node][reqs[r].id] = NoDoc]
          /\ Finish(r, 200, "", NoDoc, NoDoc)
     ELSE /\ Finish(r, 404, "not found", NoDoc, NoDoc)
          /\ UNCHANGED store
  /\ UNCHANGED peers

\* del(_id) under the lock: delete whatever is stored, release
PlainDel(r) ==
  /\ reqs[r].pc = "plain" /\ reqs[r].kind = "DEL"
  /\ store' = [store EXCEPT ![reqs[r].node][reqs[r].id] = NoDoc]
  /\ Finish(r, 200, "", NoDoc, NoDoc)
  /\ UNCHANGED peers

\* a faulty get that takes the lock like put and del
StartGetLocked ==
  \E r \in ReqIds, n \in ClientNodes, id \in Ids :
    StartLocked(r, "GET", n, id, Undefined, NoBody)

\* GET /api/docs/:id calls get(_id): db.get is issued at once
StartGet ==
  \E r \in ReqIds, n \in ClientNodes, id \in Ids :
    /\ NextToStart(r)
    /\ reqs' = [reqs EXCEPT ![r] = [IdleReq EXCEPT !.kind = "GET", !.node = n,
                                                   !.id = id, !.pc = "read"]]
    /\ UNCHANGED <<peers, store, locked, queue, msgs>>

\* db.get answers: 200 with the document, or 404
GetRead(r) ==
  /\ reqs[r].pc = "read"
  /\ LET doc == store[reqs[r].node][reqs[r].id] IN
     reqs' = [reqs EXCEPT ![r] = Answer(reqs[r], IF doc.some THEN 200 ELSE 404, "", doc)]
  /\ UNCHANGED <<peers, store, locked, queue, msgs>>

(***************************************************************************)
(* Replication receiver: POST /replicate, applyRemotePut, applyRemoteDel   *)
(***************************************************************************)
\* a faulty receiver that does not compare doc._id with _id
InvalidPayloadLax(c) ==
  \/ c.op = "" \/ c.id = ""
  \/ c.op \notin {"put", "del"}
  \/ c.op = "put" /\ (~c.doc.some \/ c.doc.rev # c.rev)
  \/ c.op = "put" /\ ~Truthy(c.doc.rev)

\* the payload checks of the receiver and of applyRemotePut: 400
InvalidPayload(c) ==
  \/ c.op = "" \/ c.id = ""
  \/ c.op \notin {"put", "del"}
  \/ c.op = "put" /\ (~c.doc.some \/ c.doc.id # c.id \/ c.doc.rev # c.rev)
  \/ c.op = "put" /\ ~Truthy(c.doc.rev)

\* the peer answers with status; the answer settles the arm of the origin
\* that awaits it.  Nobody reads the answer when that arm has timed out or
\* pushToPeers is over; the sender outside the model reads its answer.
Answered(ms, r, p, status) ==
  [ms EXCEPT ![r, p].st = "done", ![r, p].change = NoChange,
             ![r, p].status = IF ms[r, p].arm = "pending" \/ r \notin ReqIds
                              THEN status ELSE 0,
             ![r, p].arm = IF @ = "pending" THEN Classify(status) ELSE @]

\* a _rev allocated by a sender outside the model
ForeignRev == <<"1", "-", "f">>

\* the prevRev such a sender may send to node n: none, or the _rev stored
\* there (a stale one when nothing is stored)
ForeignPrevRevs(n, id) ==
  {Undefined, IF store[n][id].some THEN RevOf(store[n][id]) ELSE StaleRev}

\* the change records it may send: a put of its own revision, or a del
ForeignChanges(n) ==
  UNION {
    {[op |-> "put", id |-> i, prevRev |-> pr, rev |-> ForeignRev,
      doc |-> MkDoc(i, ForeignRev, [a |-> 0, b |-> 1])] : pr \in ForeignPrevRevs(n, i)}
    \cup
    {[op |-> "del", id |-> i, prevRev |-> pr, rev |-> Undefined, doc |-> NoDoc] :
       pr \in ForeignPrevRevs(n, i)}
    : i \in Ids}

\* the request is at node p with a token it accepts: 400, or acquire();
\* ms holds the request as sent
Arrive(ms, r, p) ==
  LET c == ms[r, p].change IN
  IF InvalidPayload(c)
  THEN /\ msgs' = Answered(ms, r, p, 400)
       /\ UNCHANGED <<locked, queue>>
  ELSE LET now == AcquiresNow(p, c.id) IN
       /\ msgs' = [ms EXCEPT ![r, p].st = IF now THEN "holding" ELSE "queued"]
       /\ locked' = [locked EXCEPT ![p][c.id] = TRUE]
       /\ queue' = IF now THEN queue
                   ELSE [queue EXCEPT ![p][c.id] = Append(@, MsgWaiter(r, p))]

\* a push reaches the peer
RecvArrive(r, p) ==
  /\ msgs[r, p].st = "sent"
  /\ Arrive(msgs, r, p)
  /\ UNCHANGED <<peers, store, reqs>>

\* a change record of the sender outside the model reaches node n, its
\* previous request answered (one that is lost or refused changes nothing)
Foreign(n) ==
  /\ \A p \in Nodes : msgs[ForeignId, p].st \in {"none", "done"}
  /\ \E c \in ForeignChanges(n) :
       Arrive([k \in SenderIds \X Nodes |->
                 IF k = <<ForeignId, n>>
                 THEN [change |-> c, arm |-> "none", st |-> "sent", status |-> 0]
                 ELSE IF k[1] = ForeignId THEN NoMsg ELSE msgs[k]],
              ForeignId, n)
  /\ UNCHANGED <<peers, store, reqs>>

\* authMiddleware of the peer does not know the sender's token: 401
RecvUnauthorized(r, p) ==
  /\ msgs[r, p].st = "sent"
  /\ msgs' = Answered(msgs, r, p, 401)
  /\ UNCHANGED <<peers, store, locked, queue, reqs>>

\* a faulty applyRemotePut that stores the document under a revision of the
\* receiver
RemoteDocFresh(c) ==
  IF c.op = "put" THEN [c.doc EXCEPT !.rev = nextRev(c.prevRev, 1)] ELSE NoDoc

\* a faulty receiver that answers 200 to a put without storing the document
RemoteDocDropped(c) == NoDoc

\* what applyRemotePut / applyRemoteDel leave stored when the CAS holds
RemoteDoc(c) == IF c.op = "put" THEN ForceId(c.doc, c.doc.id) ELSE NoDoc

\* applyRemotePut / applyRemoteDel under the lock: CAS on prevRev, store or
\* delete, release, answer 200 or 409
RecvApply(r, p) ==
  /\ msgs[r, p].st = "holding"
  /\ LET c == msgs[r, p].change
         existing == store[p][c.id]
         e == casRevError(existing, c.prevRev)
         doc == IF e # "" THEN existing ELSE RemoteDoc(c)
     IN /\ store' = [store EXCEPT ![p][c.id] = doc]
        /\ Release(p, c.id, reqs,
                   Answered(msgs, r, p, IF e # "" THEN 409 ELSE 200), doc)
  /\ UNCHANGED peers

(***************************************************************************)
(* The network and the fan-out arms of the origin                          *)
(***************************************************************************)
\* a faulty withTimeout whose timer never fires
ArmTimeoutNever(r, p) == FALSE /\ UNCHANGED <<peers, store, locked, queue, reqs, msgs>>

\* withTimeout rejects: the arm is a failure; the request itself goes on
ArmTimeout(r, p) ==
  /\ msgs[r, p].arm = "pending"
  /\ msgs' = [msgs EXCEPT ![r, p].arm = "failure"]
  /\ UNCHANGED <<peers, store, locked, queue, reqs>>

\* fetch rejects: the request never reaches the peer
NetError(r, p) ==
  /\ msgs[r, p].st = "sent"
  /\ msgs' = [msgs EXCEPT ![r, p].st = "done", ![r, p].change = NoChange,
                          ![r, p].arm = IF @ = "pending" THEN "failure" ELSE @]
  /\ UNCHANGED <<peers, store, locked, queue, reqs>>

(***************************************************************************)
(* The engine used directly: withDocTransaction with a body that makes any *)
(* tx calls with any arguments.  A call that throws ends the body: the     *)
(* exception leaves withDocTransaction through its finally.                *)
(***************************************************************************)
\* a key other than the one of the transaction
OtherId == "y"

\* the revisions a caller may pass as expectedPrevRev / prevRev
TxRevs(n, id) == {Undefined, EmptyStr, StaleRev, RevOf(store[n][id])}

\* the documents a caller may pass to tx.replaceExact: one of its own, the
\* same under another _id, and one without _rev
TxDocs(id) ==
  {MkDoc(id, <<"1", "-", "f">>, [a |-> 0, b |-> 1]),
   MkDoc(OtherId, <<"1", "-", "f">>, [a |-> 0, b |-> 1]),
   MkDoc(id, Undefined, [a |-> 0, b |-> 1])}

StartTx ==
  \E r \in ReqIds, n \in ClientNodes, id \in Ids :
    StartLocked(r, "TX", n, id, Undefined, NoBody)

\* the body of transaction r may make another call
MayCall(r) ==
  reqs[r].kind = "TX" /\ reqs[r].pc = "body" /\ reqs[r].calls < MaxCalls

\* call op(arg) of transaction r throws the 409 e: the store is as it was
\* and the body is over; the exception is on its way to the finally
TxThrows(r, op, arg, e) ==
  /\ reqs' = [reqs EXCEPT ![r].op = op, ![r].irev = arg, ![r].saved = NoDoc,
                          ![r].result = NoDoc, ![r].calls = @ + 1,
                          ![r].status = 409, ![r].err = e, ![r].pc = "thrown"]
  /\ UNCHANGED <<store, locked, queue, msgs>>

\* call op(arg) of transaction r returns result, having stored doc
TxReturns(r, op, arg, given, result, doc) ==
  /\ reqs' = [reqs EXCEPT ![r].op = op, ![r].irev = arg, ![r].saved = given,
                          ![r].result = result, ![r].calls = @ + 1]
  /\ store' = [store EXCEPT ![reqs[r].node][reqs[r].id] = doc]
  /\ UNCHANGED <<locked, queue, msgs>>

\* tx.get(): load
TxCallGet(r) ==
  /\ MayCall(r)
  /\ LET existing == store[reqs[r].node][reqs[r].id] IN
     /\ reqs' = [reqs EXCEPT ![r].op = "get", ![r].irev = Undefined,
                             ![r].result = existing, ![r].calls = @ + 1]
     /\ UNCHANGED <<peers, store, locked, queue, msgs>>

\* tx.put(input): casPut
TxCallPut(r) ==
  /\ MayCall(r)
  /\ \E irev \in InputRevs(reqs[r].node, reqs[r].id), ibody \in InputBodies(r) :
       LET existing == store[reqs[r].node][reqs[r].id]
           e == casPutError(existing, irev)
           next == casPutDoc(existing, reqs[r].id, ibody, Uuid)
       IN IF e # "" THEN TxThrows(r, "put", irev, e)
          ELSE TxReturns(r, "put", irev, NoDoc, next, next)
  /\ UNCHANGED peers

\* tx.del(prevRev): casDelete
TxCallDel(r) ==
  /\ MayCall(r)
  /\ \E prevRev \in TxRevs(reqs[r].node, reqs[r].id) :
       LET existing == store[reqs[r].node][reqs[r].id]
           e == casDeleteError(existing, prevRev)
       IN IF e # "" THEN TxThrows(r, "del", prevRev, e)
          ELSE TxReturns(r, "del", prevRev, NoDoc, NoDoc, NoDoc)
  /\ UNCHANGED peers

\* a faulty casReplace that stores the document under a revision of its own
casReplaceDocFresh(doc, id) == [ForceId(doc, id) EXCEPT !.rev = nextRev(doc.rev, 1)]

\* casReplace stores { ...doc, _id }
casReplaceDoc(doc, id) == ForceId(doc, id)

\* tx.replaceExact(doc, expectedPrevRev): casReplace
TxCallReplace(r) ==
  /\ MayCall(r)
  /\ \E doc \in TxDocs(reqs[r].id), expected \in TxRevs(reqs[r].node, reqs[r].id) :
       LET existing == store[reqs[r].node][reqs[r].id]
           e == casRevError(existing, expected)
       IN IF e # "" THEN TxThrows(r, "replaceExact", expected, e)
          ELSE TxReturns(r, "replaceExact", expected, doc, NoDoc,
                         casReplaceDoc(doc, reqs[r].id))
  /\ UNCHANGED peers

\* the transaction is over: the caller has its outcome, the lock is released
TxEnds(r, status, err) ==
  /\ Release(reqs[r].node, reqs[r].id,
             [reqs EXCEPT ![r] = [Answer(reqs[r], status, err, NoDoc)
                                    EXCEPT !.irev = Undefined]],
             msgs, store[reqs[r].node][reqs[r].id])
  /\ UNCHANGED <<peers, store>>

\* the body returns: "[tx] commit", finally release()
TxCommit(r) ==
  /\ reqs[r].kind = "TX" /\ reqs[r].pc = "body"
  /\ TxEnds(r, 200, "")

\* the exception of a tx call leaves withDocTransaction: finally release()
TxAbort(r) ==
  /\ reqs[r].kind = "TX" /\ reqs[r].pc = "thrown"
  /\ TxEnds(r, reqs[r].status, reqs[r].err)

(***************************************************************************)
(* The receiver used directly: a sender outside the model posts any change *)
(* record to /replicate with a token the node accepts, and may post the    *)
(* record again once it was answered 200.                                  *)
(***************************************************************************)
\* a _rev that is not of the form nextRev gives
LooseRev == <<"a", "b", "c">>

Change(op, id, prevRev, rev, doc) ==
  [op |-> op, id |-> id, prevRev |-> prevRev, rev |-> rev, doc |-> doc]

\* the bodies such a sender may post to node n: the well-formed ones, and
\* for every check of the receiver and of applyRemotePut one that fails it
\* or comes close to failing it
AnyChanges(n) ==
  ForeignChanges(n) \cup
  UNION {
    LET d == MkDoc(i, ForeignRev, [a |-> 0, b |-> 1]) IN
    {Change("", i, Undefined, ForeignRev, d),
     Change("merge", i, Undefined, ForeignRev, d),
     Change("put", "", Undefined, ForeignRev, ForceId(d, "")),
     Change("del", "", Undefined, Undefined, NoDoc),
     Change("put", i, Undefined, ForeignRev, NoDoc),
     Change("put", i, Undefined, ForeignRev, ForceId(d, OtherId)),
     Change("put", i, Undefined, StaleRev, d),
     Change("del", i, EmptyStr, Undefined, NoDoc)}
    \cup
    {Change("put", i, pr, Undefined, [d EXCEPT !.rev = Undefined]) :
       pr \in ForeignPrevRevs(n, i)}
    \cup
    {Change("put", i, pr, LooseRev, [d EXCEPT !.rev = LooseRev]) :
       pr \in ForeignPrevRevs(n, i)}
    : i \in Ids}

\* the sender posts a change record to node n, its previous one answered
Send(n) ==
  /\ \A p \in Nodes : msgs[ForeignId, p].st \in {"none", "done"}
  /\ \A p \in Nodes : msgs[RepeatId, p].st \in {"none", "next", "done"}
  /\ \E c \in AnyChanges(n) :
       msgs' = [k \in SenderIds \X Nodes |->
                  IF k = <<ForeignId, n>>
                  THEN [change |-> c, arm |-> "none", st |-> "sent", status |-> 0]
                  ELSE IF k = <<RepeatId, n>> /\ c.op = "put" /\ ~InvalidPayload(c)
                  THEN [change |-> c, arm |-> "none", st |-> "next", status |-> 0]
                  ELSE IF k[1] \notin ReqIds THEN NoMsg ELSE msgs[k]]
  /\ UNCHANGED <<peers, store, locked, queue, reqs>>

\* the sender posts the same put again, the first one answered 200
Resend(n) ==
  /\ msgs[ForeignId, n].st = "done" /\ msgs[ForeignId, n].status = 200
  /\ msgs[RepeatId, n].st = "next"
  /\ msgs' = [msgs EXCEPT ![RepeatId, n].st = "sent"]
  /\ UNCHANGED <<peers, store, locked, queue, reqs>>

\* no peers are configured
InitAlone ==
  /\ peers = [n \in Nodes |-> {}]
  /\ store = [n \in Nodes |-> [i \in Ids |-> NoDoc]]
  /\ locked = [n \in Nodes |-> [i \in Ids |-> FALSE]]
  /\ queue = [n \in Nodes |-> [i \in Ids |-> <<>>]]
  /\ reqs = [r \in ReqIds |-> IdleReq]
  /\ msgs = [k \in SenderIds \X Nodes |-> NoMsg]

\* a node without peers whose engine is used directly, and a sender outside
\* the model that replicates to it
NextEngine ==
  \/ StartTx
  \/ \E r \in ReqIds : TxCallGet(r)
  \/ \E r \in ReqIds : TxCallPut(r)
  \/ \E r \in ReqIds : TxCallDel(r)
  \/ \E r \in ReqIds : TxCallReplace(r)
  \/ \E r \in ReqIds : TxCommit(r)
  \/ \E r \in ReqIds : TxAbort(r)
  \/ \E n \in ClientNodes : Foreign(n)
  \/ \E p \in Nodes : RecvApply(ForeignId, p)

SpecEngine == InitAlone /\ [][NextEngine]_vars

\* a node without peers that serves plain put and del, and a sender outside
\* the model that posts any change record to its receiver
NextRecv ==
  \/ StartPut
  \/ StartDel
  \/ \E r \in ReqIds : PlainPut(r)
  \/ \E r \in ReqIds : PlainDel(r)
  \/ \E n \in ClientNodes : Send(n)
  \/ \E n \in ClientNodes : Resend(n)
  \/ \E r \in SenderIds \ ReqIds, p \in Nodes : RecvArrive(r, p)
  \/ \E r \in SenderIds \ ReqIds, p \in Nodes : RecvApply(r, p)

SpecRecv == InitAlone /\ [][NextRecv]_vars

\* a node with two peers that serves POST and DELETE
InitFan ==
  /\ peers = Star
  /\ store = [n \in Nodes |-> [i \in Ids |-> NoDoc]]
  /\ locked = [n \in Nodes |-> [i \in Ids |-> FALSE]]
  /\ queue = [n \in Nodes |-> [i \in Ids |-> <<>>]]
  /\ reqs = [r \in ReqIds |-> IdleReq]
  /\ msgs = [k \in SenderIds \X Nodes |-> NoMsg]

NextFan ==
  \/ StartPost
  \/ StartDelete
  \/ \E r \in ReqIds : TxGet(r)
  \/ \E r \in ReqIds : TxPut(r)
  \/ \E r \in ReqIds : TxDel(r)
  \/ \E r \in ReqIds : PushSettled(r)
  \/ \E r \in ReqIds : Rollback(r)
  \/ \E r \in ReqIds, p \in Nodes : RecvArrive(r, p)
  \/ \E r \in ReqIds, p \in Nodes : RecvUnauthorized(r, p)
  \/ \E r \in ReqIds, p \in Nodes : RecvApply(r, p)
  \/ \E r \in ReqIds, p \in Nodes : ArmTimeout(r, p)
  \/ \E r \in ReqIds, p \in Nodes : NetError(r, p)

SpecFan == InitFan /\ [][NextFan]_vars

(***************************************************************************)
(* Two documents: POST and DELETE on two _ids of a node with one peer      *)
(***************************************************************************)
Keys == Ids \cup {OtherId}

InitKeys ==
  /\ peers = Pair
  /\ store = [n \in Nodes |-> [i \in Keys |-> NoDoc]]
  /\ locked = [n \in Nodes |-> [i \in Keys |-> FALSE]]
  /\ queue = [n \in Nodes |-> [i \in Keys |-> <<>>]]
  /\ reqs = [r \in ReqIds |-> IdleReq]
  /\ msgs = [k \in SenderIds \X Nodes |-> NoMsg]

StartPostKey ==
  \E r \in ReqIds, n \in ClientNodes, id \in Keys :
    \E irev \in InputRevs(n, id), ibody \in InputBodies(r) :
      StartLocked(r, "POST", n, id, irev, ibody)

StartDeleteKey ==
  \E r \in ReqIds, n \in ClientNodes, id \in Keys :
    StartLocked(r, "DELETE", n, id, Undefined, NoBody)

NextKeys ==
  \/ StartPostKey
  \/ StartDeleteKey
  \/ \E r \in ReqIds : TxGet(r)
  \/ \E r \in ReqIds : TxPut(r)
  \/ \E r \in ReqIds : TxDel(r)
  \/ \E r \in ReqIds : PushSettled(r)
  \/ \E r \in ReqIds : Rollback(r)
  \/ \E r \in ReqIds, p \in Nodes : RecvArrive(r, p)
  \/ \E r \in ReqIds, p \in Nodes : RecvUnauthorized(r, p)
  \/ \E r \in ReqIds, p \in Nodes : RecvApply(r, p)
  \/ \E r \in ReqIds, p \in Nodes : ArmTimeout(r, p)
  \/ \E r \in ReqIds, p \in Nodes : NetError(r, p)

SpecKeys == InitKeys /\ [][NextKeys]_vars

(***************************************************************************)
(* The revision allocator: a node without peers that serves put, and a     *)
(* sender outside the model that replicates documents with revisions of    *)
(* its own to it, which applyRemotePut stores as they are.                 *)
(***************************************************************************)
\* 2^53 - 1, the largest integer whose successor is a double
MaxSafe == DigitsPred(TwoTo53)

\* the generations such a sender gives its revisions
SampleGens == {<<"0">>, <<"1">>, <<"9">>, <<"1", "9">>, MaxSafe, TwoTo53}

\* its revisions: "<n>-f", and some that do not start with a number
SampleRevs ==
  {g \o <<"-", "f">> : g \in SampleGens}
  \cup {LooseRev, <<"-", "f">>, <<"x", "-", "f">>, <<"1", "x", "-", "f">>}

\* the sender posts a put of a document with one of its revisions to node n,
\* its previous request answered
SendRev(n) ==
  /\ \A p \in Nodes : msgs[ForeignId, p].st \in {"none", "done"}
  /\ \E i \in Ids, rev \in SampleRevs :
       Arrive([k \in SenderIds \X Nodes |->
                 IF k = <<ForeignId, n>>
                 THEN [change |-> Change("put", i, RevOf(store[n][i]), rev,
                                         MkDoc(i, rev, [a |-> 0, b |-> 1])),
                       arm |-> "none", st |-> "sent", status |-> 0]
                 ELSE IF k[1] = ForeignId THEN NoMsg ELSE msgs[k]],
              ForeignId, n)
  /\ UNCHANGED <<peers, store, reqs>>

NextAlloc ==
  \/ StartPut
  \/ \E r \in ReqIds : PlainPut(r)
  \/ \E n \in ClientNodes : SendRev(n)
  \/ \E r \in SenderIds, p \in Nodes : RecvApply(r, p)

SpecAlloc == InitAlone /\ [][NextAlloc]_vars

(***************************************************************************)
(* Two nodes that are each other's peer and both serve POST and DELETE.    *)
(* The event loop of a node runs every continuation that is ready, and the *)
(* timer of withTimeout fires unless the peer has answered before: weak    *)
(* fairness of the steps of the handlers and of the timeouts.  Nothing is  *)
(* assumed of the network, nor of the clients.                             *)
(***************************************************************************)
Mutual == [n \in Nodes |-> IF n = "A" THEN {"B"} ELSE IF n = "B" THEN {"A"} ELSE {}]
MutualNodes == {"A", "B"}

InitMutual ==
  /\ peers = Mutual
  /\ store = [n \in Nodes |-> [i \in Ids |-> NoDoc]]
  /\ locked = [n \in Nodes |-> [i \in Ids |-> FALSE]]
  /\ queue = [n \in Nodes |-> [i \in Ids |-> <<>>]]
  /\ reqs = [r \in ReqIds |-> IdleReq]
  /\ msgs = [k \in SenderIds \X Nodes |-> NoMsg]

StartPostAt ==
  \E r \in ReqIds, n \in MutualNodes, id \in Ids :
    \E irev \in InputRevs(n, id), ibody \in InputBodies(r) :
      StartLocked(r, "POST", n, id, irev, ibody)

StartDeleteAt ==
  \E r \in ReqIds, n \in MutualNodes, id \in Ids :
    StartLocked(r, "DELETE", n, id, Undefined, NoBody)

\* the next step of the handler of transaction r
HandlerStep(r) ==
  TxGet(r) \/ TxPut(r) \/ TxDel(r) \/ PushSettled(r) \/ Rollback(r)

NextMutual ==
  \/ StartPostAt
  \/ StartDeleteAt
  \/ \E r \in ReqIds : HandlerStep(r)
  \/ \E r \in ReqIds, p \in Nodes : RecvArrive(r, p)
  \/ \E r \in ReqIds, p \in Nodes : RecvUnauthorized(r, p)
  \/ \E r \in ReqIds, p \in Nodes : RecvApply(r, p)
  \/ \E r \in ReqIds, p \in Nodes : ArmTimeout(r, p)
  \/ \E r \in ReqIds, p \in Nodes : NetError(r, p)

Fairness ==
  /\ \A r \in ReqIds : WF_vars(HandlerStep(r))
  /\ \A r \in ReqIds, p \in MutualNodes : WF_vars(RecvApply(r, p))
  /\ \A r \in ReqIds, p \in MutualNodes : WF_vars(ArmTimeout(r, p))

SpecMutual == InitMutual /\ [][NextMutual]_vars /\ Fairness

(***************************************************************************)
(* Specification                                                           *)
(***************************************************************************)
Next ==
  \/ StartPost
  \/ StartDelete
  \/ StartPut
  \/ StartDel
  \/ StartGet
  \/ \E r \in ReqIds : TxGet(r)
  \/ \E r \in ReqIds : TxPut(r)
  \/ \E r \in ReqIds : TxDel(r)
  \/ \E r \in ReqIds : PushSettled(r)
  \/ \E r \in ReqIds : Rollback(r)
  \/ \E r \in ReqIds : PlainPut(r)
  \/ \E r \in ReqIds : PlainDel(r)
  \/ \E r \in ReqIds : GetRead(r)
  \/ \E n \in ClientNodes : Foreign(n)
  \/ \E r \in ReqIds, p \in Nodes : RecvArrive(r, p)
  \/ \E r \in ReqIds, p \in Nodes : RecvUnauthorized(r, p)
  \/ \E r \in SenderIds, p \in Nodes : RecvApply(r, p)
  \/ \E r \in ReqIds, p \in Nodes : ArmTimeout(r, p)
  \/ \E r \in ReqIds, p \in Nodes : NetError(r, p)

Spec == Init /\ [][Next]_vars

\* the event loop runs every step that is ready: a handler goes on after its
\* await, a receiver applies the request it has read, a timer fires
FairSteps ==
  WF_vars(\/ \E r \in ReqIds :
               HandlerStep(r) \/ PlainPut(r) \/ PlainDel(r) \/ GetRead(r)
          \/ \E r \in SenderIds, p \in Nodes : RecvApply(r, p)
          \/ \E r \in ReqIds, p \in Nodes : ArmTimeout(r, p))

\* the same program under the scheduling of the event loop
SpecLive == Init /\ [][Next]_vars /\ FairSteps

(***************************************************************************)
(* Properties                                                              *)
(***************************************************************************)
\* operation r is a withDocTransaction call
IsTx(r) == reqs[r].kind \in {"POST", "DELETE"}

\* the body of transaction r has started and has not yet returned or thrown
InBody(r) == IsTx(r) /\ reqs[r].pc \in {"get", "apply", "await", "rollback"}

\* r and q are operations on the same _id of the same node
SameDoc(r, q) == reqs[r].node = reqs[q].node /\ reqs[r].id = reqs[q].id

\* C1: the bodies of two withDocTransaction calls on the same _id never
\* overlap, and the tx.get() of a body returns the document that the holder
\* of the lock before it left in the store when it released the lock.
C1_BodiesSerialised ==
  /\ \A r, q \in ReqIds : r # q /\ InBody(r) /\ InBody(q) => ~SameDoc(r, q)
  /\ \A r \in ReqIds :
       IsTx(r) /\ reqs[r].pc \in {"apply", "await", "rollback"}
         => reqs[r].prev = reqs[r].before

\* the second of two transactions arrived while the first was in
\* progress; the first has returned, and the tx.get() of the second has
\* returned the document the first one saved
C1_Witness ==
  \E r, q \in ReqIds :
    /\ r # q /\ SameDoc(r, q) /\ q \in reqs[r].rivals
    /\ reqs[q].kind = "POST" /\ reqs[q].pc = "done" /\ reqs[q].status = 201
    /\ reqs[r].kind = "POST" /\ reqs[r].pc = "apply"
    /\ reqs[r].prev = reqs[q].result

\* operation r runs its put (plain put, or tx.put of a POST) in this step
PutStep(r) ==
  \/ reqs[r].kind = "PUT" /\ reqs[r].pc = "plain" /\ reqs'[r].pc # "plain"
  \/ reqs[r].kind = "POST" /\ reqs[r].pc = "apply" /\ reqs'[r].pc # "apply"

\* the CAS rule: the stored _rev is sent back, or nothing is stored and no
\* _rev is sent
CasAllows(doc, irev) ==
  \/ doc.some /\ irev # Undefined /\ irev = doc.rev
  \/ ~doc.some /\ irev = Undefined

\* C2: put and tx.put succeed (store a document and return it) only if a
\* document is stored and input._rev equals its _rev, or none is stored and
\* input._rev is absent; in every other case the call fails with a 409
\* conflict and the stored state of the _id is unchanged.
C2_PutCas ==
  [][\A r \in ReqIds :
       PutStep(r) =>
         LET n == reqs[r].node
             id == reqs[r].id
         IN IF CasAllows(store[n][id], reqs[r].irev)
            THEN /\ store'[n][id].some /\ store'[n][id] # store[n][id]
                 /\ reqs'[r].status # 409
                 /\ store'[n][id] = IF reqs[r].kind = "PUT" THEN reqs'[r].result
                                    ELSE reqs'[r].saved
            ELSE /\ reqs'[r].pc = "done" /\ reqs'[r].status = 409
                 /\ reqs'[r].err \in {"conflict: revision mismatch",
                                      "conflict: document does not exist"}
                 /\ store' = store]_vars

\* a put has created a document, and a POST that sent a stale _rev for it
\* has been refused
C2_Witness ==
  \E r, q \in ReqIds :
    /\ reqs[q].kind = "PUT" /\ reqs[q].pc = "done" /\ reqs[q].status = 200
    /\ reqs[r].kind = "POST" /\ reqs[r].pc = "done" /\ reqs[r].status = 409
    /\ reqs[r].irev = StaleRev /\ reqs[r].err = "conflict: revision mismatch"
    /\ store[reqs[q].node][reqs[q].id] = reqs[q].result

\* transaction r, past its local apply, ends in this step
EndsStep(r) ==
  IsTx(r) /\ reqs[r].pc \in {"await", "rollback"} /\ reqs'[r].pc = "done"

\* what is stored under the _id of operation r, now and after the step
Stored(r) == store[reqs[r].node][reqs[r].id]
StoredNext(r) == store'[reqs[r].node][reqs[r].id]

\* C3: when a POST for which a peer answered 409 (pushToPeers reports a
\* conflict) finishes, the origin stores for the _id exactly what it stored
\* when the request got the lock (the previous document with its previous
\* _rev, or nothing), and the client receives 409.
C3_PostRollsBack ==
  [][\A r \in ReqIds :
       EndsStep(r) /\ reqs[r].kind = "POST" /\ conflicts(r) # {}
         => /\ StoredNext(r) = reqs[r].before
            /\ reqs'[r].status = 409]_vars

\* a POST on top of a document that a plain put created has been answered
\* 409 because the peer answered 409, and that document is stored again
C3_Witness ==
  \E r, q \in ReqIds :
    /\ reqs[q].kind = "PUT" /\ reqs[q].pc = "done" /\ reqs[q].status = 200
    /\ reqs[r].kind = "POST" /\ reqs[r].pc = "done" /\ reqs[r].status = 409
    /\ reqs[r].err = "replication conflict" /\ reqs[r].irev = reqs[q].result.rev
    /\ \E p \in peers[reqs[r].node] : msgs[r, p].st = "done"
    /\ Stored(r) = reqs[q].result

\* C4: when a DELETE finishes, then if a peer answered the del push with
\* 409 the origin stores what it stored when the request got the lock (the
\* previous document unchanged, or nothing) and answers 409; if no peer
\* answered 409 the document is absent and the answer is 204.
C4_DeleteOutcome ==
  [][\A r \in ReqIds :
       EndsStep(r) /\ reqs[r].kind = "DELETE"
         => IF conflicts(r) # {}
            THEN StoredNext(r) = reqs[r].before /\ reqs'[r].status = 409
            ELSE ~StoredNext(r).some /\ reqs'[r].status = 204]_vars

\* a DELETE has been answered 409 after a peer's 409, a later DELETE of
\* the restored document 204, and the document is absent
C4_Witness ==
  \E r, q \in ReqIds :
    /\ reqs[q].kind = "DELETE" /\ reqs[q].pc = "done" /\ reqs[q].status = 409
    /\ reqs[q].err = "replication conflict"
    /\ reqs[r].kind = "DELETE" /\ reqs[r].pc = "done" /\ reqs[r].status = 204
    /\ \A p \in peers[reqs[r].node] : msgs[r, p].st = "done"
    /\ ~Stored(r).some

\* C5: when pushToPeers returns without a conflict, whatever the failures,
\* the write commits in that step: the local write stays stored, the answer
\* is 201 (POST) or 204 (DELETE) and no rollback step runs; and a request to
\* a peer is sent only by the step that applies the local change, so no
\* change is pushed a second time.
C5_FailuresCommit ==
  [][/\ \A r \in ReqIds :
          IsTx(r) /\ reqs[r].pc = "await" /\ reqs'[r].pc # "await" /\ conflicts(r) = {}
            => /\ reqs'[r].pc = "done"
               /\ reqs'[r].status = IF reqs[r].kind = "POST" THEN 201 ELSE 204
               /\ StoredNext(r) = Stored(r)
               /\ StoredNext(r) = IF reqs[r].kind = "POST" THEN reqs[r].saved ELSE NoDoc
     /\ \A r \in ReqIds, p \in Nodes :
          msgs'[r, p].st = "sent" /\ msgs[r, p].st # "sent"
            => msgs[r, p].st = "none" /\ reqs[r].pc = "apply"]_vars

\* a POST has been answered 201 and its document is stored while its push
\* to its only peer, whose arm has timed out, is still on the wire
C5_Witness ==
  \E r \in ReqIds :
    /\ reqs[r].kind = "POST" /\ reqs[r].pc = "done" /\ reqs[r].status = 201
    /\ peers[reqs[r].node] # {}
    /\ \A p \in peers[reqs[r].node] : msgs[r, p].st = "sent"
    /\ Stored(r) = reqs[r].result /\ Stored(r).some

\* C6: when the tx.put of a POST fails its CAS, the request ends in that
\* step with 409 and has sent no change record to any node; and a change
\* record of an operation comes into being only in the step in which its
\* local apply succeeds.
C6_NoPushOnLocalConflict ==
  [][/\ \A r \in ReqIds :
          /\ reqs[r].kind = "POST" /\ reqs[r].pc = "apply" /\ reqs'[r].pc # "apply"
          /\ ~CasAllows(Stored(r), reqs[r].irev)
          => /\ reqs'[r].pc = "done" /\ reqs'[r].status = 409
             /\ \A p \in Nodes : msgs'[r, p] = NoMsg
     /\ \A r \in ReqIds, p \in Nodes :
          msgs[r, p] = NoMsg /\ msgs'[r, p] # NoMsg
            => /\ reqs[r].pc = "apply" /\ reqs'[r].pc = "await"
               /\ reqs[r].kind = "POST" => CasAllows(Stored(r), reqs[r].irev)
               /\ StoredNext(r) = IF reqs[r].kind = "POST" THEN reqs'[r].saved
                                  ELSE NoDoc]_vars

\* a POST that sent a _rev for a document that does not exist has been
\* answered 409 and no request of it exists, on a node that has a peer
C6_Witness ==
  \E r \in ReqIds :
    /\ reqs[r].kind = "POST" /\ reqs[r].pc = "done" /\ reqs[r].status = 409
    /\ reqs[r].err = "conflict: document does not exist"
    /\ peers[reqs[r].node] # {}
    /\ \A p \in Nodes : msgs[r, p] = NoMsg

\* operation q or a push holds the lock of the _id of r besides r
OtherHolder(r) ==
  \/ \E q \in ReqIds :
       /\ q # r /\ SameDoc(r, q)
       /\ reqs[q].pc \in {"get", "apply", "await", "rollback", "plain"}
  \/ \E k \in SenderIds :
       /\ msgs[k, reqs[r].node].st = "holding"
       /\ msgs[k, reqs[r].node].change.id = reqs[r].id

\* transaction r has applied its local change and not yet ended
InWindow(r) == IsTx(r) /\ reqs[r].pc \in {"await", "rollback"}

\* C7: from the local apply of a POST or DELETE until it has committed or
\* rolled back, the lock of the _id is held, no other transaction, plain
\* put, plain del, applyRemotePut or applyRemoteDel on that _id is past its
\* acquire(), and the stored state of the _id is as the apply left it.
C7_WindowExclusive ==
  \A r \in ReqIds :
    InWindow(r)
      => /\ locked[reqs[r].node][reqs[r].id]
         /\ ~OtherHolder(r)
         /\ Stored(r) = IF reqs[r].kind = "POST" THEN reqs[r].saved ELSE NoDoc

\* a POST awaits its pushes while another operation and a push of another
\* sender for the same _id wait in the queue of the lock
C7_Witness ==
  \E r, q \in ReqIds :
    /\ reqs[r].kind = "POST" /\ reqs[r].pc = "await"
    /\ q # r /\ SameDoc(r, q) /\ reqs[q].pc = "wait"
    /\ msgs[ForeignId, reqs[r].node].st = "queued"
    /\ Len(queue[reqs[r].node][reqs[r].id]) = 2

\* C8 as stated: a get never returns a revision whose transaction has not
\* yet committed or rolled back, i.e. no answered GET holds the document
\* that a POST still in its window has saved.
C8_GetWaitsForLock ==
  \A g, r \in ReqIds :
    reqs[g].kind = "GET" /\ reqs[g].pc = "done" /\ InWindow(r) /\ reqs[r].kind = "POST"
      => reqs[g].result # reqs[r].saved

\* C8 (amended): get takes no lock and waits for nobody: a GET is never in
\* the queue of a mutex, its read leaves the mutex as it is, and it answers
\* with whatever is stored when it reads, also while a transaction on the
\* _id holds the lock.
C8_GetIsLockFree ==
  [][\A g \in ReqIds :
       /\ reqs'[g].kind = "GET" => reqs'[g].pc \in {"read", "done"}
       /\ reqs[g].kind = "GET" /\ reqs[g].pc = "read" /\ reqs'[g].pc # "read"
          => /\ reqs'[g].pc = "done" /\ reqs'[g].result = Stored(g)
             /\ reqs'[g].status = IF Stored(g).some THEN 200 ELSE 404
             /\ locked' = locked /\ queue' = queue /\ store' = store]_vars

\* a GET has returned the revision a POST saved, while that POST is
\* rolling back under the lock
C8_Witness ==
  \E g, r \in ReqIds :
    /\ reqs[g].kind = "GET" /\ reqs[g].pc = "done" /\ reqs[g].status = 200
    /\ reqs[r].kind = "POST" /\ reqs[r].pc = "rollback" /\ SameDoc(g, r)
    /\ locked[reqs[r].node][reqs[r].id]
    /\ reqs[g].result = reqs[r].saved

\* POST r, which arrived carrying the current _rev of an existing document
\* while POST q carrying the same _rev was in progress, ends in this step
RaceEnds(r, q) ==
  /\ reqs[r].kind = "POST" /\ q \in reqs[r].rivals
  /\ reqs[r].pc # "done" /\ reqs'[r].pc = "done"

\* no third writer came between the two: the first found the document at
\* the _rev it carried, and the second found what the first left
Undisturbed(r, q) ==
  /\ reqs[q].pc = "done" /\ reqs[q].err \in {"", "replication conflict"}
  /\ reqs[r].before = IF reqs[q].status = 201 THEN reqs[q].result
                      ELSE [reqs[r].before EXCEPT !.rev = reqs[r].irev]
  /\ reqs[r].before.some

\* C9 as stated: of two concurrent POSTs on one node that both carry the
\* current _rev of an existing document, no other writer intervening,
\* exactly one is answered 2xx and exactly one 409, whatever the peers
\* answer, and the document stored when both have ended is the one the 2xx
\* returned.
C9_ExactlyOneWins ==
  [][\A r, q \in ReqIds :
       RaceEnds(r, q) /\ Undisturbed(r, q)
         => \/ /\ reqs[q].status = 201 /\ reqs'[r].status = 409
               /\ StoredNext(r) = reqs[q].result
            \/ /\ reqs[q].status = 409 /\ reqs'[r].status = 201
               /\ StoredNext(r) = reqs'[r].result]_vars

\* C9 (amended): of two such POSTs the first to get the lock has ended
\* when the second ends, and each is answered 201 or 409.  When no other
\* writer intervened: if the first was answered 201 the second fails its
\* CAS with 409 and the document of the first stays stored; if the first
\* was rolled back, the second is answered 201 and its document is stored
\* unless its own push meets a 409, and then it is answered 409 as well
\* and the original document is stored again.  So at most one is answered
\* 201, and both may be answered 409.
C9_AtMostOneWins ==
  [][\A r, q \in ReqIds :
       RaceEnds(r, q)
         => /\ reqs[q].pc = "done"
            /\ reqs[q].status \in {201, 409} /\ reqs'[r].status \in {201, 409}
            /\ Undisturbed(r, q) /\ reqs[q].status = 201
                 => /\ reqs'[r].status = 409
                    /\ reqs'[r].err = "conflict: revision mismatch"
                    /\ StoredNext(r) = reqs[q].result
            /\ Undisturbed(r, q) /\ reqs[q].status = 409
                 => IF conflicts(r) = {}
                    THEN reqs'[r].status = 201 /\ StoredNext(r) = reqs'[r].result
                    ELSE reqs'[r].status = 409 /\ StoredNext(r) = reqs[r].before]_vars

\* the first of two POSTs that carried the same current _rev has been
\* answered 409 "replication conflict"; the second, which arrived while the
\* first was in progress, has passed its CAS, its push has been answered
\* 409 as well, and it is rolling back
C9_Witness ==
  \E r, q \in ReqIds :
    /\ q \in reqs[r].rivals /\ Undisturbed(r, q)
    /\ reqs[q].kind = "POST" /\ reqs[q].status = 409
    /\ reqs[q].err = "replication conflict"
    /\ reqs[r].kind = "POST" /\ reqs[r].pc = "rollback"
    /\ conflicts(r) # {}
    /\ Stored(r) = reqs[r].saved

\* operation r stores a document by its put in this step
WriteStep(r) == PutStep(r) /\ CasAllows(Stored(r), reqs[r].irev)

\* operation q has ended as a successful local write on the _id of r
WroteBefore(q, r) ==
  /\ q # r /\ SameDoc(r, q) /\ reqs[q].pc = "done"
  /\ \/ reqs[q].kind = "PUT" /\ reqs[q].status = 200
     \/ reqs[q].kind = "POST" /\ reqs[q].status = 201

AckStep(r, p) ==
  reqs[r].pc = "await" /\ msgs[r, p].arm = "pending" /\ msgs'[r, p].arm = "ack"

\* a write of another sender takes effect at p in this step
OtherWriteAt(r, p) ==
  \E q \in SenderIds \ {r} : msgs[q, p].st = "holding" /\ store'[p] # store[p]

\* C14: when peer p answers the push of a POST or DELETE with 200, p stores
\* for the _id what the origin stores (the saved document with its _rev, or
\* nothing), and this stays so until the request ends as long as no other
\* write reaches p: when the request then ends with 201 or 204, p stores the
\* document the POST returns, or nothing after a DELETE.
C14_AckedPeerAgrees ==
  [][\A r \in ReqIds, p \in Nodes :
       /\ AckStep(r, p) =>
            /\ store'[p][reqs[r].id] = StoredNext(r)
            /\ StoredNext(r) = IF reqs[r].kind = "POST" THEN reqs[r].saved ELSE NoDoc
       /\ reqs[r].pc = "await" /\ p \in acks(r)
          /\ store[p][reqs[r].id] = Stored(r) /\ ~OtherWriteAt(r, p)
            => /\ store'[p][reqs[r].id] = StoredNext(r)
               /\ reqs'[r].pc = "done" /\ reqs'[r].status \in {201, 204}
                    => store'[p][reqs[r].id] = reqs'[r].result]_vars

\* a POST on top of a document has been answered 201 and its peer stores the
\* document it returned
C14_Witness ==
  \E r \in ReqIds :
    /\ reqs[r].kind = "POST" /\ reqs[r].pc = "done" /\ reqs[r].status = 201
    /\ reqs[r].result.some /\ Generation(reqs[r].result.rev) = 2
    /\ Stored(r) = reqs[r].result
    /\ \A p \in peers[reqs[r].node] : store[p][reqs[r].id] = reqs[r].result

\* the get of operation g reads the store in this step
ReadStep(g) == reqs[g].kind = "GET" /\ reqs[g].pc = "read" /\ reqs'[g].pc = "done"

\* operation q has ended by returning the document it stored
Returned(q) ==
  /\ reqs[q].pc = "done"
  /\ \/ reqs[q].kind = "PUT" /\ reqs[q].status = 200
     \/ reqs[q].kind = "POST" /\ reqs[q].status = 201

\* C15: a successful put or tx.put stores and returns a document D made of
\* the attributes stored before overlaid by those of the input (the input
\* wins, the other stored attributes stay), with _id the key and a new _rev
\* different from the one stored before; a POST that commits returns the D
\* that is stored; and a get returns what is stored, so D as long as no
\* write has changed it.
C15_PutThenGet ==
  [][/\ \A r \in ReqIds :
         WriteStep(r) =>
           LET old == Stored(r)
               D == StoredNext(r)
               ob == IF old.some THEN old.body ELSE NoBody
           IN /\ D.some /\ D.id = reqs[r].id
              /\ D.body.a = IF reqs[r].ibody.a # 0 THEN reqs[r].ibody.a ELSE ob.a
              /\ D.body.b = IF reqs[r].ibody.b # 0 THEN reqs[r].ibody.b ELSE ob.b
              /\ Truthy(D.rev) /\ D.rev # RevOf(old)
              /\ reqs[r].kind = "PUT" => reqs'[r].status = 200 /\ reqs'[r].result = D
              /\ reqs[r].kind = "POST" => reqs'[r].saved = D
     /\ \A r \in ReqIds :
         EndsStep(r) /\ reqs'[r].status = 201 =>
           reqs'[r].result = StoredNext(r) /\ reqs'[r].result = reqs[r].saved
     /\ \A g \in ReqIds :
         ReadStep(g) =>
           /\ reqs'[g].result = Stored(g)
           /\ reqs'[g].status = IF Stored(g).some THEN 200 ELSE 404
           /\ \A q \in ReqIds :
                Returned(q) /\ SameDoc(g, q) /\ Stored(g) = reqs[q].result
                  => reqs'[g].status = 200 /\ reqs'[g].result = reqs[q].result]_vars

\* a put on top of a document with attribute b has returned a document with
\* its own a and that b, and a get has returned the same document
C15_Witness ==
  \E q, g \in ReqIds :
    /\ reqs[q].kind = "PUT" /\ Returned(q)
    /\ reqs[q].result.body = [a |-> q, b |-> 1]
    /\ Generation(reqs[q].result.rev) = 2
    /\ reqs[g].kind = "GET" /\ reqs[g].pc = "done" /\ reqs[g].status = 200
    /\ SameDoc(g, q) /\ reqs[g].result = reqs[q].result

\* operation r runs its plain del in this step
DelStep(r) == reqs[r].kind = "DEL" /\ reqs[r].pc = "plain" /\ reqs'[r].pc # "plain"

\* C16: plain del(_id) succeeds whether or not a document is stored and
\* whatever its _rev, and leaves the document absent and every other
\* document as it was; a get of an absent document returns absent (404)
\* without an error.  So del; del; get ends absent with no error raised.
C16_DelIdempotent ==
  [][/\ \A r \in ReqIds :
         DelStep(r) =>
           /\ reqs'[r].pc = "done" /\ reqs'[r].status = 200 /\ reqs'[r].err = ""
           /\ store' = [store EXCEPT ![reqs[r].node][reqs[r].id] = NoDoc]
     /\ \A g \in ReqIds :
         ReadStep(g) /\ ~Stored(g).some =>
           /\ reqs'[g].status = 404 /\ reqs'[g].err = ""
           /\ ~reqs'[g].result.some]_vars

\* a document has been replicated to the node, and two plain del of its _id
\* have succeeded one after the other; nothing is stored
C16_Witness ==
  \E r, q \in ReqIds :
    /\ r < q /\ SameDoc(r, q)
    /\ reqs[r].kind = "DEL" /\ reqs[r].pc = "done" /\ reqs[r].status = 200
    /\ reqs[q].kind = "DEL" /\ reqs[q].pc = "done" /\ reqs[q].status = 200
    /\ msgs[ForeignId, reqs[r].node].st = "done"
    /\ msgs[ForeignId, reqs[r].node].status = 200
    /\ ~Stored(r).some

(***************************************************************************)
(* Properties of the mutex                                                 *)
(***************************************************************************)
\* the callers of acquire() on the mutex of id at node n whose promise has
\* resolved and who have not yet called release(): operations and pushes
Holding(w, n, id, rq, ms) ==
  IF w.t = "req"
  THEN /\ rq[w.r].node = n /\ rq[w.r].id = id
       /\ rq[w.r].pc \notin {"idle", "wait", "read", "done"}
  ELSE w.p = n /\ ms[w.r, n].st = "holding" /\ ms[w.r, n].change.id = id

\* the callers whose acquire() has not resolved yet
Waiting(w, n, id, rq, ms) ==
  IF w.t = "req"
  THEN rq[w.r].node = n /\ rq[w.r].id = id /\ rq[w.r].pc = "wait"
  ELSE w.p = n /\ ms[w.r, n].st = "queued" /\ ms[w.r, n].change.id = id

\* operation r holds a lock
HoldsLock(rec) == rec.pc \notin {"idle", "wait", "read", "done"}

\* the operations and the senders of the pushes that hold the lock
HoldingReqs(n, id, rq) ==
  {r \in ReqIds : HoldsLock(rq[r]) /\ rq[r].node = n /\ rq[r].id = id}
HoldingMsgs(n, id, ms) ==
  {k \in SenderIds : ms[k, n].st = "holding" /\ ms[k, n].change.id = id}

\* no queue and no lock of node n changes in the step, no push starts or
\* stops holding a lock of n, and no operation starts or stops holding one
Untouched(n) ==
  /\ queue'[n] = queue[n] /\ locked'[n] = locked[n]
  /\ \A k \in SenderIds : (msgs'[k, n].st = "holding") = (msgs[k, n].st = "holding")
  /\ \A r \in ReqIds : HoldsLock(reqs'[r]) = HoldsLock(reqs[r])

\* caller w is the one holder of the lock
OnlyHolder(w, n, id, rq, ms) ==
  IF w.t = "req"
  THEN HoldingReqs(n, id, rq) = {w.r} /\ HoldingMsgs(n, id, ms) = {}
  ELSE HoldingReqs(n, id, rq) = {} /\ HoldingMsgs(n, id, ms) = {w.r} /\ w.p = n

\* the queue q of the mutex of id at node n holds the waiting callers, each
\* once
QueueOfWaiters(q, n, id, rq, ms) ==
  /\ \A i \in 1..Len(q) : Waiting(q[i], n, id, rq, ms)
  /\ \A i, j \in 1..Len(q) : q[i] = q[j] => i = j
  /\ \A r \in ReqIds : Waiting(ReqWaiter(r), n, id, rq, ms)
                          => \E i \in 1..Len(q) : q[i] = ReqWaiter(r)
  /\ \A k \in SenderIds : Waiting(MsgWaiter(k, n), n, id, rq, ms)
                            => \E i \in 1..Len(q) : q[i] = MsgWaiter(k, n)

\* C21: the mutex of an _id has at most one holder; the callers that wait
\* are exactly the entries of its queue, each once; a caller that finds the
\* mutex locked is appended at the tail; a release hands the lock to the
\* head of the queue without unlocking; and nobody else gets a lock that
\* has waiters.  So the waiters obtain the lock in the order of their calls.
C21_MutexFifo ==
  [][\A n \in Nodes : Untouched(n) \/ \A id \in Ids :
       LET q == queue[n][id]
           qn == queue'[n][id]
           hr == HoldingReqs(n, id, reqs)
           hm == HoldingMsgs(n, id, msgs)
           hrn == HoldingReqs(n, id, reqs')
           hmn == HoldingMsgs(n, id, msgs')
       IN
       /\ Cardinality(hrn) + Cardinality(hmn) <= 1
       /\ IF qn = q
          THEN q # <<>> => hrn = hr /\ hmn = hm
          ELSE /\ QueueOfWaiters(qn, n, id, reqs', msgs')
               /\ \/ /\ Len(qn) = Len(q) + 1 /\ SubSeq(qn, 1, Len(q)) = q
                     /\ ~Waiting(qn[Len(qn)], n, id, reqs, msgs)
                     /\ ~Holding(qn[Len(qn)], n, id, reqs, msgs)
                     /\ hrn = hr /\ hmn = hm
                     /\ Cardinality(hr) + Cardinality(hm) = 1
                     /\ locked[n][id]
                  \/ /\ q # <<>> /\ qn = Tail(q)
                     /\ OnlyHolder(Head(q), n, id, reqs', msgs')
                     /\ ~Holding(Head(q), n, id, reqs, msgs)
                     /\ locked[n][id] /\ locked'[n][id]]_vars

\* a POST that called acquire() while another POST was in progress holds
\* the lock, that POST being over, and a remote apply that called acquire()
\* later waits in the queue
C21_Witness ==
  \E r, q \in ReqIds :
    /\ reqs[r].rivals = {q} /\ reqs[q].pc = "done"
    /\ OnlyHolder(ReqWaiter(r), reqs[r].node, reqs[r].id, reqs, msgs)
    /\ queue[reqs[r].node][reqs[r].id] = <<MsgWaiter(ForeignId, reqs[r].node)>>

\* the number of callers that hold the lock of id at node n
Holders(n, id) ==
  Cardinality(HoldingReqs(n, id, reqs)) + Cardinality(HoldingMsgs(n, id, msgs))

\* C22: put, del, withDocTransaction, applyRemotePut and applyRemoteDel
\* release the lock once on every way out, a 409 and an exception of the
\* body included: the lock of an _id is held exactly when one operation that
\* acquired it is still in progress, nobody holds a lock that is free, and
\* callers wait only for a lock that is held.
C22_LockReleased ==
  \A n \in Nodes, id \in Ids :
    /\ Holders(n, id) <= 1
    /\ locked[n][id] <=> Holders(n, id) = 1
    /\ queue[n][id] # <<>> => locked[n][id]

\* a POST has ended with the 409 its body threw after a peer refused the
\* push, a remote apply has ended on the same _id, and the lock is free
C22_Witness ==
  \E r \in ReqIds :
    /\ reqs[r].pc = "done" /\ reqs[r].kind = "POST"
    /\ reqs[r].err = "replication conflict"
    /\ msgs[ForeignId, reqs[r].node].st = "done"
    /\ ~locked[reqs[r].node][reqs[r].id]
    /\ Holders(reqs[r].node, reqs[r].id) = 0

(***************************************************************************)
(* Properties of a peer that has missed a write                            *)
(***************************************************************************)
\* applyRemotePut / applyRemoteDel of the request of sender r at node p
\* runs: from the lock to the answer
Applied(r, p) == msgs[r, p].st = "holding" /\ msgs'[r, p].st = "done"

\* the nodes that are a peer of some node
Pushees == UNION {Pair[n] \cup Star[n] : n \in Nodes}

\* the write of transaction r is stored at the origin and its push to peer p
\* is lost for good: pushToPeers has put it under failures and nothing is
\* under way to p; under id, p stores _rev v and the origin another one
Missed(r, p, id, v) ==
  /\ reqs[r].kind \in {"POST", "DELETE"} /\ reqs[r].pc = "await"
  /\ reqs[r].id = id
  /\ p \in peers[reqs[r].node]
  /\ msgs[r, p].arm = "failure" /\ conflicts(r) = {}
  /\ \A k \in SenderIds : msgs[k, p].st \in {"none", "done"}
  /\ OrUndefined(RevOf(store[p][reqs[r].id])) = v
  /\ OrUndefined(RevOf(store[reqs[r].node][reqs[r].id])) # v

\* peer p has answered 200 to the push of a write of id made on _rev v
AckedOn(p, id, v) ==
  \E r \in ReqIds :
    /\ reqs[r].pc = "await" /\ reqs[r].id = id /\ msgs[r, p].arm = "ack"
    /\ OrUndefined(RevOf(reqs[r].prev)) = v

\* C24 as stated, for a peer that stores no document under the _id: once
\* peer p has missed a write of the origin and stores nothing where the
\* origin stores a document, p answers 200 to no later push of the origin
\* for that _id that was made on no document.  (The state of p changes, from
\* then on, only by a push that p accepts, and p accepts only such a push.)
C24_MissedPeerConflicts ==
  \A p \in Pushees, id \in Ids :
    []((\E r \in ReqIds : Missed(r, p, id, Undefined))
         => [](~AckedOn(p, id, Undefined)))

\* the remote apply of the push of transaction r, which waits for it, runs at
\* peer p while p stores another _rev than the origin stored before the write
StaleApply(r, p) ==
  /\ Applied(r, p) /\ reqs[r].pc = "await" /\ msgs[r, p].arm = "pending"
  /\ OrUndefined(RevOf(store[p][reqs[r].id])) # OrUndefined(RevOf(reqs[r].prev))

\* transaction r ends in the step
EndStep(r) == reqs[r].pc \in {"await", "rollback"} /\ reqs'[r].pc = "done"

\* C24: a push of the origin that reaches a peer while the peer's stored
\* _rev differs from the _rev the origin stored before that write is
\* answered 409 and leaves the peer as it is, and the origin rolls that
\* write back: it answers 409 and stores what it stored before.  (The
\* origin and a peer that has missed a write need not stay apart: see
\* C24_MissedPeerConflicts.)
C24_StalePushConflicts ==
  [][\A r \in ReqIds :
       /\ \A p \in Nodes :
            StaleApply(r, p) => /\ msgs'[r, p].arm = "conflict"
                                /\ msgs'[r, p].status = 409
                                /\ store'[p] = store[p]
       /\ EndStep(r) /\ conflicts(r) # {}
            => /\ reqs'[r].status = 409
               /\ store'[reqs[r].node][reqs[r].id] = reqs[r].before]_vars

\* a POST has updated the document at the origin, its push has reached the
\* peer, which has missed the write before and stores nothing, and the peer
\* has answered 409
C24_Witness ==
  \E r \in ReqIds, p \in Nodes :
    /\ reqs[r].kind = "POST" /\ reqs[r].pc = "await" /\ reqs[r].prev.some
    /\ p \in peers[reqs[r].node]
    /\ msgs[r, p].arm = "conflict" /\ msgs[r, p].st = "done"
    /\ ~store[p][reqs[r].id].some
    /\ store[reqs[r].node][reqs[r].id] = reqs[r].saved

(***************************************************************************)
(* Properties of the change records                                        *)
(***************************************************************************)
\* transaction r writes locally and hands its change record to pushToPeers
EmitStep(r) == reqs[r].pc = "apply" /\ reqs'[r].pc = "await"

\* change record c tells the write that takes the document stored under id
\* from before to after
Consistent(c, id, before, after) ==
  /\ c.id = id /\ c.prevRev = RevOf(before)
  /\ IF after.some
     THEN /\ c.op = "put" /\ c.doc = after
          /\ c.doc.id = c.id /\ c.doc.rev = c.rev /\ Truthy(c.rev)
     ELSE c.op = "del"

\* C27: the change record a POST or DELETE hands to pushToPeers tells its
\* local write: a put carries the document stored, whose _id is _id and
\* whose _rev is rev and not empty, a del carries no document, and prevRev
\* is the _rev stored before the write, undefined when nothing was stored.
\* No record of the orchestration that is under way fails the checks of the
\* receiver, and no peer answers one with 400.
C27_ChangeConsistent ==
  [][\A r \in ReqIds :
       /\ EmitStep(r)
            => /\ peers[reqs[r].node] # {}
               /\ \A p \in peers[reqs[r].node] :
                    /\ msgs'[r, p].st = "sent"
                    /\ Consistent(msgs'[r, p].change, reqs[r].id,
                                  store[reqs[r].node][reqs[r].id],
                                  store'[reqs[r].node][reqs[r].id])
       /\ \A p \in Nodes :
            /\ msgs'[r, p].status # 400
            /\ msgs'[r, p].st \in {"sent", "queued", "holding"}
                 => ~InvalidPayload(msgs'[r, p].change)
            /\ msgs[r, p].st = "sent" /\ msgs'[r, p].st = "done"
                 => msgs'[r, p].status \in {0, 401}]_vars

\* the change record of a POST that updates a document is at the peer, whose
\* remote apply holds the lock: it carries the document saved and the _rev of
\* the document replaced
C27_Witness ==
  \E r \in ReqIds, p \in Nodes :
    /\ reqs[r].kind = "POST" /\ reqs[r].pc = "await" /\ reqs[r].prev.some
    /\ msgs[r, p].st = "holding"
    /\ msgs[r, p].change.doc = reqs[r].saved
    /\ msgs[r, p].change.prevRev = reqs[r].prev.rev
    /\ Generation(msgs[r, p].change.rev) = 2

(***************************************************************************)
(* Properties of the rollback                                              *)
(***************************************************************************)
\* the rollback of transaction r runs: its CAS call and the 409
RollbackStep(r) == reqs[r].pc = "rollback" /\ reqs'[r].pc = "done"

\* the expected revision the rollback of r passes to tx.replaceExact or
\* tx.del
ExpectedByRollback(r) ==
  IF reqs[r].kind = "POST" THEN reqs[r].saved.rev ELSE Undefined

\* C28: when the rollback of a POST or DELETE runs, the _rev stored is the
\* one its CAS call expects (the _rev of saved after a POST, none after a
\* DELETE), so the call stores prev again, or deletes what the POST created,
\* and the request ends with the 409 "replication conflict"; and no request
\* that has pushed its change ends with another error.
C28_RollbackSucceeds ==
  [][\A r \in ReqIds :
       /\ RollbackStep(r)
            => /\ OrUndefined(RevOf(store[reqs[r].node][reqs[r].id]))
                    = OrUndefined(ExpectedByRollback(r))
               /\ reqs[r].kind = "POST"
                    => store[reqs[r].node][reqs[r].id] = reqs[r].saved
               /\ store'[reqs[r].node][reqs[r].id] = reqs[r].prev
               /\ reqs[r].prev = reqs[r].before
               /\ reqs'[r].status = 409
               /\ reqs'[r].err = "replication conflict"
       /\ EndStep(r)
            => /\ reqs'[r].err \in {"", "replication conflict"}
               /\ conflicts(r) # {} => reqs'[r].err = "replication conflict"]_vars

\* a DELETE has ended with the 409 of the rollback and the document it had
\* deleted is stored again, the peer storing nothing
C28_Witness ==
  \E r \in ReqIds :
    /\ reqs[r].pc = "done" /\ reqs[r].kind = "DELETE"
    /\ reqs[r].status = 409 /\ reqs[r].err = "replication conflict"
    /\ store[reqs[r].node][reqs[r].id].some
    /\ \A p \in peers[reqs[r].node] : ~store[p][reqs[r].id].some
    /\ ~locked[reqs[r].node][reqs[r].id]

(***************************************************************************)
(* Properties of the engine used directly (SpecEngine)                     *)
(***************************************************************************)
\* the body of transaction r calls tx.get() right after a tx.replaceExact
\* that returned
ReplaceThenGet(r) ==
  /\ reqs[r].kind = "TX" /\ reqs[r].pc = "body" /\ reqs[r].op = "replaceExact"
  /\ reqs'[r].pc = "body" /\ reqs'[r].op = "get"

HexTokens == {Nonce(k) : k \in NonceIds} \cup {"f"}

\* rev is of the form "<positive integer>-<8 hex characters>"
WellFormed(rev) ==
  LET dash == IndexOfDash(rev) IN
  /\ dash > 0 /\ Len(rev) = dash + 2
  /\ NumberOf(SubSeq(rev, 1, dash)) > 0
  /\ rev[Len(rev)] \in HexTokens

CallStep(r, op) ==
  /\ reqs[r].kind = "TX" /\ reqs[r].pc = "body"
  /\ reqs'[r].op = op /\ reqs'[r].calls = reqs[r].calls + 1

RevsAgree(cur, expected) ==
  \/ cur = expected
  \/ ~Truthy(cur) /\ ~Truthy(expected)

\* C20: tx.del(expectedPrevRev) with an expectedPrevRev that is supplied and
\* differs from the stored _rev (also when no document is stored) fails with
\* 409 and leaves the store unchanged; when it matches, or none is supplied,
\* the document is deleted if it exists and nothing happens otherwise.
C20_TxDel ==
  [][\A r \in ReqIds :
       CallStep(r, "del") =>
         LET expected == reqs'[r].irev
             old == Stored(r)
         IN IF expected # Undefined /\ ~RevsAgree(RevOf(old), expected)
            THEN /\ reqs'[r].pc = "thrown" /\ reqs'[r].status = 409
                 /\ store' = store
            ELSE /\ reqs'[r].pc = "body" /\ reqs'[r].status = 0
                 /\ store' = [store EXCEPT ![reqs[r].node][reqs[r].id] = NoDoc]
                 /\ ~old.some => store' = store]_vars

\* a tx.del with the stored _rev has deleted the document, and the tx.del
\* with a stale _rev that followed has thrown
C20_Witness ==
  \E r \in ReqIds :
    /\ reqs[r].kind = "TX" /\ reqs[r].pc = "thrown" /\ reqs[r].op = "del"
    /\ reqs[r].calls = 2 /\ reqs[r].irev = StaleRev /\ reqs[r].status = 409
    /\ ~Stored(r).some
    /\ \E p \in Nodes : msgs[ForeignId, p].st = "done" /\ msgs[ForeignId, p].status = 200

(***************************************************************************)
(* Properties of the receiver used directly (SpecRecv)                     *)
(***************************************************************************)
\* the second of two equal applyRemotePut calls runs at node p, the stored
\* document being the one the first call left
SecondApplied(p) ==
  /\ Applied(RepeatId, p)
  /\ store[p][msgs[RepeatId, p].change.id] = RemoteDoc(msgs[RepeatId, p].change)

\* C12 as stated: the same applyRemotePut(doc, prevRev) applied twice in a
\* row, the first with success: the second returns 409 and leaves the stored
\* document unchanged.
C12_SecondConflicts ==
  [][\A p \in Nodes :
       SecondApplied(p) => msgs'[RepeatId, p].status = 409 /\ store' = store]_vars

\* C12: the same applyRemotePut(doc, prevRev) applied twice in a row, the
\* first with success: the second leaves the stored document unchanged; it
\* returns 409 when prevRev differs from doc._rev and 200 when prevRev is
\* doc._rev.
C12_SecondConflictsUnlessSameRev ==
  [][\A p \in Nodes :
       SecondApplied(p) =>
         /\ store' = store
         /\ msgs'[RepeatId, p].status =
              IF msgs[RepeatId, p].change.prevRev = msgs[RepeatId, p].change.doc.rev
              THEN 200 ELSE 409]_vars

C12_Witness ==
  \E p \in Nodes, i \in Ids :
    /\ \A r \in ReqIds : reqs[r].pc = "idle"
    /\ msgs[ForeignId, p].st = "done" /\ msgs[ForeignId, p].status = 200
    /\ msgs[RepeatId, p].st = "done" /\ msgs[RepeatId, p].status = 409
    /\ store[p][i].some /\ store[p][i].rev = ForeignRev

\* the current stored _rev of the _id of change record c at node p equals
\* its prevRev, both absent counting as equal
RevMatches(p, c) ==
  \/ RevOf(store[p][c.id]) = c.prevRev
  \/ ~Truthy(RevOf(store[p][c.id])) /\ ~Truthy(c.prevRev)

\* C13: applyRemotePut(doc, prevRev) and applyRemoteDel(_id, prevRev) take
\* effect only when the stored _rev equals prevRev (both absent counts as
\* equal); otherwise they answer 409 and leave the store unchanged.  On
\* success the put stores doc with the sender's _rev and the del leaves the
\* document absent; no revision is allocated.
C13_RemoteCas ==
  [][\A r \in SenderIds \ ReqIds, p \in Nodes :
       Applied(r, p) =>
         LET c == msgs[r, p].change IN
         IF RevMatches(p, c)
         THEN /\ msgs'[r, p].status = 200
              /\ store' = [store EXCEPT ![p][c.id] =
                             IF c.op = "put" THEN c.doc ELSE NoDoc]
              /\ c.op = "put" => store'[p][c.id].rev = c.rev
         ELSE /\ msgs'[r, p].status = 409
              /\ store' = store]_vars

C13_Witness ==
  \E p \in Nodes, i \in Ids :
    /\ msgs[ForeignId, p].st = "done" /\ msgs[ForeignId, p].status = 200
    /\ store[p][i].some /\ store[p][i].rev = LooseRev
    /\ \E r \in ReqIds : reqs[r].pc = "done" /\ reqs[r].kind = "PUT"

\* the request of sender r is handled by the receiver of p in this step, up
\* to its answer or to the acquire() of applyRemotePut / applyRemoteDel
ArrivesStep(r, p) == msgs[r, p].st = "sent" /\ msgs'[r, p].st # "sent"

\* change record c has an op outside {put, del}, an empty or missing _id,
\* or is a put with doc missing, doc._id different from _id or doc._rev
\* different from rev
Listed(c) ==
  \/ c.op \notin {"put", "del"}
  \/ c.id = ""
  \/ c.op = "put" /\ (~c.doc.some \/ c.doc.id # c.id \/ c.doc.rev # c.rev)

\* a put that passes these checks with neither doc._rev nor rev
NoRevPut(c) == ~Listed(c) /\ c.op = "put" /\ ~Truthy(c.doc.rev)

\* C18 as stated: the receiver answers 400 and changes nothing for the
\* records listed, and every other record is passed to applyRemotePut /
\* applyRemoteDel and answered 200, 409 or 500.
C18_OthersApplied ==
  [][\A r \in SenderIds \ ReqIds, p \in Nodes :
       /\ ArrivesStep(r, p) =>
            IF Listed(msgs[r, p].change)
            THEN /\ msgs'[r, p].st = "done" /\ msgs'[r, p].status = 400
                 /\ store' = store
            ELSE \/ msgs'[r, p].st \in {"holding", "queued"}
                 \/ msgs'[r, p].st = "done" /\ msgs'[r, p].status \in {200, 409, 500}
       /\ Applied(r, p) => msgs'[r, p].status \in {200, 409, 500}]_vars

\* C18: the receiver answers 400 and changes nothing for the records
\* listed and for a put that carries neither doc._rev nor rev (the 400 of
\* applyRemotePut); every other record gets the lock of its _id and is
\* answered 200 when the stored _rev matches prevRev and 409 when not.
C18_InvalidRejected ==
  [][\A r \in SenderIds \ ReqIds, p \in Nodes :
       /\ ArrivesStep(r, p) =>
            IF Listed(msgs[r, p].change) \/ NoRevPut(msgs[r, p].change)
            THEN /\ msgs'[r, p].st = "done" /\ msgs'[r, p].status = 400
                 /\ store' = store /\ locked' = locked /\ queue' = queue
            ELSE /\ msgs'[r, p].st \in {"holding", "queued"}
                 /\ store' = store
       /\ Applied(r, p) =>
            /\ ~Listed(msgs[r, p].change) /\ ~NoRevPut(msgs[r, p].change)
            /\ msgs'[r, p].status = IF RevMatches(p, msgs[r, p].change) THEN 200 ELSE 409]_vars

\* a record has been answered 400 by a node that stores a document
C18_Witness ==
  \E p \in Nodes, i \in Ids :
    /\ msgs[ForeignId, p].st = "done" /\ msgs[ForeignId, p].status = 400
    /\ store[p][i].some /\ store[p][i].rev = ForeignRev
    /\ ~locked[p][i]

(***************************************************************************)
(* Properties of the fan-out to two peers (SpecFan)                        *)
(***************************************************************************)
\* pushToPeers of operation r returns in this step
ReturnsStep(r) == reqs[r].pc = "await" /\ reqs'[r].pc # "await"

\* the request of operation r to peer p settles in this step
SettlesStep(r, p) == msgs[r, p].arm = "pending" /\ msgs'[r, p].arm # "pending"

\* C17: pushToPeers returns only when the request to every configured peer
\* has settled, also when a peer has already answered 409; acks, conflicts
\* and failures are pairwise disjoint and together are the configured
\* peers; a peer is in acks iff its answer was 200, in conflicts iff it was
\* 409, and in failures for every other status, network error or timeout.
C17_FanOutSettles ==
  [][/\ \A r \in ReqIds :
         ReturnsStep(r) =>
           /\ \A p \in peers[reqs[r].node] : msgs[r, p].arm # "pending"
           /\ acks(r) \cap conflicts(r) = {} /\ acks(r) \cap failures(r) = {}
           /\ conflicts(r) \cap failures(r) = {}
           /\ acks(r) \cup conflicts(r) \cup failures(r) = peers[reqs[r].node]
           /\ \A p \in peers[reqs[r].node] :
                /\ p \in acks(r) <=> msgs[r, p].status = 200
                /\ p \in conflicts(r) <=> msgs[r, p].status = 409
                /\ p \in failures(r) <=> msgs[r, p].status \notin {200, 409}
     /\ \A r \in ReqIds, p \in Nodes :
         SettlesStep(r, p) =>
           /\ msgs'[r, p].arm = "ack" <=> msgs'[r, p].status = 200
           /\ msgs'[r, p].arm = "conflict" <=> msgs'[r, p].status = 409
           /\ msgs'[r, p].arm = "failure" <=> msgs'[r, p].status \notin {200, 409}
           /\ msgs'[r, p].st = msgs[r, p].st => msgs'[r, p].arm = "failure"]_vars

C17_Witness ==
  \E r \in ReqIds :
    /\ reqs[r].pc = "rollback"
    /\ acks(r) # {} /\ conflicts(r) # {}
    /\ acks(r) \cup conflicts(r) = peers[reqs[r].node]


(***************************************************************************)
(* Properties of two documents (SpecKeys)                                  *)
(***************************************************************************)
\* the step is one of an operation or of a push on document id of node n
StepOn(n, id) ==
  \/ \E r \in ReqIds : /\ reqs'[r] # reqs[r]
                       /\ reqs'[r].node = n /\ reqs'[r].id = id
  \/ \E k \in SenderIds : /\ msgs'[k, n] # msgs[k, n]
                          /\ id \in {msgs[k, n].change.id, msgs'[k, n].change.id}

\* operation r calls acquire() on the mutex of id at node n in the step
AcquireStep(r, n, id) ==
  /\ reqs[r].pc = "idle" /\ reqs'[r].pc # "idle"
  /\ reqs'[r].node = n /\ reqs'[r].id = id

\* the remote apply of the push of sender k calls acquire() on the mutex of
\* id at node n in the step
RemoteAcquireStep(k, n, id) ==
  /\ msgs[k, n].st \in {"none", "sent", "done"}
  /\ msgs'[k, n].st \in {"queued", "holding"}
  /\ msgs'[k, n].change.id = id

\* C23: the locks of distinct _ids are independent.  A caller of acquire()
\* on the mutex of an _id waits iff that mutex is locked, whatever holds the
\* mutexes of the other _ids, a transaction waiting for its peers included;
\* and a step that is not one of an operation or a push on an _id leaves
\* the document stored under it, its lock and its queue as they are.
C23_KeysIndependent ==
  [][\A n \in Nodes, id \in Keys :
       /\ \A r \in ReqIds :
            AcquireStep(r, n, id) => (reqs'[r].pc = "wait" <=> locked[n][id])
       /\ \A k \in SenderIds :
            RemoteAcquireStep(k, n, id)
              => (msgs'[k, n].st = "queued" <=> locked[n][id])
       /\ ~StepOn(n, id) => /\ store'[n][id] = store[n][id]
                            /\ locked'[n][id] = locked[n][id]
                            /\ queue'[n][id] = queue[n][id]]_vars

\* a transaction on one _id holds its lock and waits for its peer, while a
\* transaction on the other _id that started after it has committed
C23_Witness ==
  \E r, q \in ReqIds :
    /\ r < q /\ reqs[r].node = reqs[q].node /\ reqs[r].id # reqs[q].id
    /\ reqs[r].pc = "await" /\ locked[reqs[r].node][reqs[r].id]
    /\ \E p \in Nodes : msgs[r, p].arm = "pending"
    /\ reqs[q].pc = "done" /\ reqs[q].kind = "POST" /\ reqs[q].err = ""
    /\ store[reqs[q].node][reqs[q].id].some
    /\ ~locked[reqs[q].node][reqs[q].id]

(***************************************************************************)
(* Properties of a fan-out that one peer accepts and another refuses       *)
(***************************************************************************)
\* a step of transaction r after pushToPeers has returned with a peer under
\* acks and a peer under conflicts
PartialStep(r) ==
  /\ reqs[r].pc \in {"await", "rollback"} /\ reqs'[r] # reqs[r]
  /\ acks(r) # {} /\ conflicts(r) # {}

\* what the write of transaction r leaves stored where it is applied
Written(r) == IF reqs[r].kind = "POST" THEN reqs[r].saved ELSE NoDoc

\* C25: when a peer has answered the push of a transaction with 200 and
\* another with 409, the origin sends no request to any peer in the steps
\* that follow and the transaction ends with 409, the origin storing again
\* what it stored before the write.  The peer that answered 200 stores the
\* write from its answer on, and keeps it until the request has ended as
\* long as no push of another request is applied there: the rollback does
\* not reach it.
C25_AckedPeerKeepsWrite ==
  [][\A r \in ReqIds :
       /\ PartialStep(r)
            => /\ \A k \in SenderIds, p \in Nodes :
                    msgs'[k, p].st = "sent" => msgs[k, p].st = "sent"
               /\ reqs'[r].pc \in {"rollback", "done"}
               /\ reqs'[r].pc = "done"
                    => /\ reqs'[r].status = 409
                       /\ store'[reqs[r].node][reqs[r].id] = reqs[r].before
       /\ \A p \in Nodes :
            /\ AckStep(r, p) => store'[p][reqs[r].id] = Written(r)
            /\ reqs[r].pc \in {"await", "rollback"} /\ p \in acks(r)
               /\ store[p][reqs[r].id] = Written(r) /\ ~OtherWriteAt(r, p)
                 => store'[p][reqs[r].id] = Written(r)]_vars

\* a POST that updated the document has ended with the 409 of the rollback:
\* the origin stores generation 1 again, one peer generation 2, and the peer
\* that refused stores nothing
C25_Witness ==
  \E r \in ReqIds, p1, p2 \in Nodes :
    /\ reqs[r].pc = "done" /\ reqs[r].kind = "POST"
    /\ reqs[r].err = "replication conflict"
    /\ peers[reqs[r].node] = {p1, p2} /\ p1 # p2
    /\ Generation(RevOf(store[reqs[r].node][reqs[r].id])) = 1
    /\ Generation(RevOf(store[p1][reqs[r].id])) = 2
    /\ ~store[p2][reqs[r].id].some

(***************************************************************************)
(* Termination of the write transactions (SpecMutual)                      *)
(***************************************************************************)
\* transaction r has been started and has not ended
InProgress(r) == reqs[r].pc \notin {"idle", "done"}

\* transaction r has ended with a commit (201 / 204) or with the 409 of a
\* local conflict or of a rollback, and holds no lock
Ended(r) ==
  /\ reqs[r].pc = "done" /\ reqs[r].status \in {201, 204, 409}
  /\ r \notin HoldingReqs(reqs[r].node, reqs[r].id, reqs)
  /\ \A i \in 1..Len(queue[reqs[r].node][reqs[r].id]) :
       queue[reqs[r].node][reqs[r].id][i] # ReqWaiter(r)

\* C26: every POST or DELETE that has been started ends, with a commit or a
\* 409, and has then released its lock, the handlers taking their steps and
\* the timer of every peer request firing unless the peer answers first.
C26_TransactionsEnd ==
  \A r \in ReqIds : InProgress(r) ~> Ended(r)

\* a POST at one node has committed after its push timed out: the push still
\* waits at the other node for the lock of that node's own POST, which has
\* written and waits for the answer to its push
C26_Witness ==
  \E r, q \in ReqIds :
    /\ reqs[r].node # reqs[q].node /\ reqs[r].id = reqs[q].id
    /\ reqs[r].pc = "done" /\ reqs[r].kind = "POST" /\ reqs[r].status = 201
    /\ msgs[r, reqs[q].node].st = "queued"
    /\ reqs[q].kind = "POST" /\ reqs[q].pc = "await"
    /\ queue[reqs[q].node][reqs[q].id] = <<MsgWaiter(r, reqs[q].node)>>

(***************************************************************************)
(* Properties of the revision allocator (SpecAlloc)                        *)
(***************************************************************************)
\* the text of rev before its first '-', empty when there is none
GenText(rev) ==
  IF IndexOfDash(rev) > 0 THEN SubSeq(rev, 1, IndexOfDash(rev)) ELSE <<>>

\* rev starts with a non-negative integer and a '-'
StartsWithNumber(rev) ==
  GenText(rev) # <<>> /\ \A i \in 1..Len(GenText(rev)) : IsDigit(GenText(rev)[i])

\* C29 as stated: a put that succeeds stores generation 1 when nothing is
\* stored, generation n + 1 when the _rev stored is "n-h" with n a
\* non-negative integer, and generation 1 when the text before the first
\* '-' of the _rev stored is missing or not a number.
C29_NextGeneration ==
  [][\A r \in ReqIds :
       WriteStep(r)
         => LET old == Stored(r)
                new == StoredNext(r)
            IN  GenText(new.rev) =
                  IF old.some /\ StartsWithNumber(old.rev)
                  THEN DigitsSucc(Canon(GenText(old.rev)))
                  ELSE <<"1">>]_vars
====
